---- MODULE Spec2Model ----
(***************************************************************************)
(* Timeline viewer: the parser (utils/parser.ts and app.js), the time      *)
(* index (app.js findDataPointsForTimestamp), the route reducer            *)
(* (MapboxMap.updateRoute, app.js updateMap), the chunked scans and the    *)
(* orchestration of main.ts.                                               *)
(*                                                                         *)
(* Representation.  An instant is an integer: minutes since                *)
(* 2024-06-01T00:00:00Z.  A timestamp string of the input is the instant   *)
(* it denotes, Absent when the field is missing and Garbage when the       *)
(* string does not parse.  Date.getTime() of an Invalid Date is NaN.  A    *)
(* date string "YYYY-MM-DD" is the tuple <<YYYY, MM, DD>>.  A coordinate   *)
(* is its E7 integer (degrees * 10^7).                                     *)
(***************************************************************************)
EXTENDS Integers, Sequences, FiniteSets, TLC

VARIABLES
    \* ---- parser calls (pure functions of a document) ----
    jsonData,        \* the parsed input document
    timezone,        \* the timezone the caller has selected
    dateStr,         \* the date the caller asks for
    useRaw,          \* the raw/semantic toggle
    datesResult,     \* result of getUniqueDatesFromRaw (parser.ts)
    pointsResult,    \* result of parseTimelineJSONForDate (parser.ts)
    fullResult,      \* result of parseTimelineJSON (app.js)
    appPointsResult, \* result of parseTimelineJSONForDate (app.js)
    \* ---- the time index (app.js findDataPointsForTimestamp) ----
    bucket,          \* currentDateData: the day bucket the lookup reads
    targetTimestamp, \* the query instant
    located,         \* the lookup's result
    \* ---- the route reducer (MapboxMap.updateRoute, app.js updateMap) ----
    locationCount,   \* locations.length / currentDateData.length
    targetIndex,     \* index of the last point to draw
    colorMode,       \* 'none' | 'speed' | 'activity'
    features,        \* the features updateRoute hands to the map source
    polylines,       \* currentPolyline / currentPolylineSegments of app.js
    \* ---- the chunked scan over rawSignals (parser.ts) ----
    totalSignals,    \* jsonData.rawSignals.length
    scanIndex,       \* the outer loop's i
    scanPc,          \* where the scan stands: "start", "loop", "yield", "done"
    visited,         \* what the scan has done so far, in order
    \* ---- one call of an extraction function (parser.ts, app.js) ----
    inSegment,       \* the segment argument
    inSignal,        \* the signal argument
    filterDate,      \* the targetDateStr argument, or NoDate
    filterTimezone,  \* the timezone argument
    extracted,       \* which function was called and what it returned
    \* ---- the application (main.ts) ----
    state,           \* the AppState object
    dom,             \* the controls: useRawData, dateSelect and its options, timeSlider
    playInterval,    \* the playback timer, or NoTimer
    intervals,       \* the number of window.setInterval timers that are scheduled
    store,           \* the IndexedDB object store 'timeline'
    alerts,          \* the alert() messages shown so far
    timers,          \* scans suspended at  await setTimeout(0), in firing order
    reads,           \* file.text() reads in flight
    io,              \* IndexedDB requests in flight, in completion order
    history          \* the requests made so far (for the statements below)

parseVars == <<jsonData, timezone, dateStr, useRaw, datesResult, pointsResult, fullResult,
               appPointsResult>>
locateVars == <<bucket, targetTimestamp, located>>
routeVars == <<locationCount, targetIndex, colorMode, features, polylines>>

scanVars == <<totalSignals, scanIndex, scanPc, visited>>

appVars == <<state, dom, playInterval, intervals, store, alerts, timers, reads, io, history>>

extractVars == <<inSegment, inSignal, filterDate, filterTimezone, extracted>>

vars == <<parseVars, locateVars, routeVars, scanVars, appVars, extractVars>>

-----------------------------------------------------------------------------
(* Values *)

Absent == -1         \* a missing field (undefined)
Garbage == -2        \* a timestamp string that Date cannot parse
NaN == -3            \* getTime() of an Invalid Date

\* 2024-06-01T23:50Z, 2024-06-02T00:10Z, 2024-06-02T12:00Z
T1 == 23 * 60 + 50
T2 == 24 * 60 + 10
T3 == 36 * 60
Times == {T1, T2, T3}

MinutesPerDay == 24 * 60

Timezones == {"UTC", "America/Los_Angeles", "Asia/Kolkata"}

\* Offset from UTC in minutes, in June 2024.
TzOffset(tz) ==
    CASE tz = "UTC" -> 0
      [] tz = "America/Los_Angeles" -> -420
      [] tz = "Asia/Kolkata" -> 330

\* The civil date of a day number counted from 2024-06-01 (May and June 2024).
CivilDate(day) == IF day < 0 THEN <<2024, 5, 32 + day>> ELSE <<2024, 6, day + 1>>

InvalidDate == <<0, 0, 0>>       \* the string "Invalid Date"

Truthy(x) == x # Absent

NoDate == <<>>       \* no date string (undefined, or the empty select value)

Or2(a, b) == IF Truthy(a) THEN a ELSE b
Or3(a, b, c) == Or2(a, Or2(b, c))

-----------------------------------------------------------------------------
(* utils/parser.ts: timestamps and dates *)

\* new Date(ts): the instant, or NaN for an unparseable or empty string
parseTimestamp(ts) == IF ts >= 0 THEN ts ELSE NaN

\* date.toISOString().split('T')[0]: the UTC date; toISOString throws a
\* RangeError on an Invalid Date, modelled by the value Threw.
Threw == <<-1, -1, -1>>

extractDateFromTimestamp(ts) ==
    IF parseTimestamp(ts) = NaN THEN Threw
    ELSE CivilDate(parseTimestamp(ts) \div MinutesPerDay)

\* date.toLocaleDateString('en-CA', { timeZone }): "YYYY-MM-DD" in tz
toLocaleDateStringEnCA(t, tz) ==
    IF t = NaN THEN InvalidDate
    ELSE CivilDate((t + TzOffset(tz)) \div MinutesPerDay)

isDateMatch(ts, targetDateStr, tz) ==
    toLocaleDateStringEnCA(parseTimestamp(ts), tz) = targetDateStr

-----------------------------------------------------------------------------
(* Input documents *)

MaxSignals == 2      \* raw signals per document
MaxSegments == 2     \* semantic segments per document

\* the position 37.7749, -122.4194 as an E7 pair
CoordA == <<377749000, -1224194000>>
LatA == CoordA[1]
LngA == CoordA[2]

\* Coordinates are counted in units of 1e-7 degree throughout, so that
\* parseE7(coord) = coord / 10000000 degrees is coord units.
E7 == 10000000

\* A coordinate string ("37.7749, -122.4194", "geo:37.7749,-122.4194") is the
\* sequence of its comma-separated parts, each the number parseFloat reads from
\* it or Garbage for text that is no number; <<>> is a missing (or, where the
\* code tests truthiness, empty) string.
NoString == <<>>

\* parts[k] of str.split(','), undefined beyond the last part
Part(parts, k) == IF k <= Len(parts) THEN parts[k] ELSE Absent

\* parseFloat(x): NaN for undefined and for text that is no number
parseFloat(x) == IF x = Absent \/ x = Garbage THEN NaN ELSE x

\* RawPosition: LatLng, point.latE7/lngE7, latitudeE7/longitudeE7, timestamp;
\* a number field that is 0 is missing or zero (both falsy)
PositionOf(str, pLat, pLng, lat, lng, ts) ==
    [present |-> TRUE, LatLng |-> str, latE7 |-> pLat, lngE7 |-> pLng,
     latitudeE7 |-> lat, longitudeE7 |-> lng, timestamp |-> ts]

NoPosition ==
    [present |-> FALSE, LatLng |-> NoString, latE7 |-> 0, lngE7 |-> 0,
     latitudeE7 |-> 0, longitudeE7 |-> 0, timestamp |-> Absent]

Position(lat, lng, ts) == PositionOf(NoString, 0, 0, lat, lng, ts)

\* RawSignal: position, signal.position, timestamp, additionalTimestamp
RawSignal(pos, nested, ts, addTs) ==
    [position |-> pos, signal |-> nested, timestamp |-> ts, additionalTimestamp |-> addTs]

RawSignalSet ==
    { RawSignal(Position(LatA, LngA, T1), NoPosition, Absent, Absent),
      RawSignal(Position(LatA, LngA, T2), NoPosition, Absent, Absent),
      RawSignal(Position(LatA, LngA, T3), NoPosition, Absent, Absent),
      \* no position.timestamp; timestamp and additionalTimestamp on different days
      RawSignal(Position(LatA, LngA, Absent), NoPosition, T1, T3),
      \* only signal.timestamp
      RawSignal(Position(LatA, LngA, Absent), NoPosition, T2, Absent),
      \* position nested under signal.signal, with its own timestamp
      RawSignal(NoPosition, Position(LatA, LngA, T3), T1, Absent),
      \* no timestamp at all
      RawSignal(Position(LatA, LngA, Absent), NoPosition, Absent, Absent),
      \* an unparseable timestamp string
      RawSignal(Position(LatA, LngA, Garbage), NoPosition, Absent, Absent),
      \* the 0,0 position
      RawSignal(Position(0, 0, T1), NoPosition, Absent, Absent),
      \* a record without position and timestamp (wifi scan, activity record)
      RawSignal(NoPosition, NoPosition, Absent, Absent) }

Waypoint(lat, lng, t) == [point |-> <<lat, lng>>, time |-> t]

\* activity.start, activity.end and visit.topCandidate.placeLocation: an object
\* with latLng and, for a place, name and address ("" when missing)
Location(str, name, address) ==
    [present |-> TRUE, latLng |-> str, name |-> name, address |-> address]

NoLocation == [present |-> FALSE, latLng |-> NoString, name |-> "", address |-> ""]

PlainLocation == Location(<<LatA, LngA>>, "", "")

\* visit.topCandidate: placeID, placeId, semanticType ("" when missing), placeLocation
Candidate(placeID, placeId, semanticType, loc) ==
    [present |-> TRUE, placeID |-> placeID, placeId |-> placeId,
     semanticType |-> semanticType, placeLocation |-> loc]

NoCandidate ==
    [present |-> FALSE, placeID |-> "", placeId |-> "", semanticType |-> "",
     placeLocation |-> NoLocation]

\* SemanticSegment: startTime, endTime, activity?, visit?, timelinePath?.
\* activityType is activity.topCandidate?.type ("" when missing); start and
\* end are activity.start and activity.end; topCandidate is visit.topCandidate.
SegmentOf(s, e, act, type, start, end, vis, cand, path) ==
    [startTime |-> s, endTime |-> e, activity |-> act, activityType |-> type,
     start |-> start, end |-> end, visit |-> vis, topCandidate |-> cand,
     timelinePath |-> path]

Segment(s, e, act, vis, path) ==
    SegmentOf(s, e, act, "WALKING", PlainLocation, PlainLocation,
              vis, Candidate("", "", "", PlainLocation), path)

SegmentSet ==
    { \* an activity with a path, crossing midnight UTC
      Segment(T1, T2, TRUE, FALSE, <<Waypoint(LatA, LngA, T1), Waypoint(LatA, LngA, T2)>>),
      \* an activity without a path
      Segment(T2, T3, TRUE, FALSE, <<>>),
      \* a visit
      Segment(T1, T2, FALSE, TRUE, <<>>),
      Segment(T3, T3, FALSE, TRUE, <<>>),
      \* a visit whose placeLocation has no latLng
      SegmentOf(T1, T2, FALSE, "", NoLocation, NoLocation, TRUE,
                Candidate("", "", "", Location(NoString, "Home", "")), <<>>),
      \* standalone paths
      Segment(T1, T2, FALSE, FALSE, <<Waypoint(LatA, LngA, T1), Waypoint(LatA, LngA, T2)>>),
      Segment(T2, T3, FALSE, FALSE, <<Waypoint(LatA, LngA, T2), Waypoint(LatA, LngA, T3)>>),
      Segment(T3, T3, FALSE, FALSE, <<Waypoint(LatA, LngA, T3)>>) }

SeqUpTo(S, n) == UNION { [1..k -> S] : k \in 0..n }

\* A document is an object {rawSignals, semanticSegments} or, when isArray, the
\* array of segments itself.
\* rawPad counts further rawSignals entries that carry neither a position nor a
\* top-level timestamp (wifiScan records); they follow the listed ones.
Document(arr, raw, sem) ==
    [isArray |-> arr, rawSignals |-> raw, rawPad |-> 0, semanticSegments |-> sem]

\* jsonData.rawSignals.length
signalCount(doc) == Len(doc.rawSignals) + doc.rawPad

Documents ==
    { Document(FALSE, raw, <<>>) : raw \in SeqUpTo(RawSignalSet, MaxSignals) }
    \cup { Document(arr, <<>>, sem) : arr \in BOOLEAN, sem \in SeqUpTo(SegmentSet, MaxSegments) }
    \cup { Document(FALSE, <<r>>, <<s>>) : r \in RawSignalSet, s \in SegmentSet }

Dates == { CivilDate(0), CivilDate(1) }

-----------------------------------------------------------------------------
(* Sequences *)

RECURSIVE FlatMap(_, _)
\* locations.push(...f(x)) for each element of seq, in order
FlatMap(f(_), seq) ==
    IF seq = <<>> THEN <<>> ELSE f(Head(seq)) \o FlatMap(f, Tail(seq))

\* a < b, a = b, a > b on JavaScript numbers are all false when one is NaN
Lt(a, b) == a # NaN /\ b # NaN /\ a < b
Leq(a, b) == a # NaN /\ b # NaN /\ a <= b

RECURSIVE InsertByTimestamp(_, _)
InsertByTimestamp(sorted, p) ==
    IF sorted = <<>> THEN <<p>>
    ELSE IF Lt(p.timestamp, Head(sorted).timestamp) THEN <<p>> \o sorted
    ELSE <<Head(sorted)>> \o InsertByTimestamp(Tail(sorted), p)

RECURSIVE StableSort(_)
\* a stable sort by a.timestamp - b.timestamp
StableSort(seq) ==
    IF seq = <<>> THEN <<>>
    ELSE InsertByTimestamp(StableSort(SubSeq(seq, 1, Len(seq) - 1)), seq[Len(seq)])

Reorderings(seq) ==
    { [i \in 1..Len(seq) |-> seq[f[i]]] : f \in Permutations(1..Len(seq)) }

\* locations.sort((a, b) => a.timestamp.getTime() - b.timestamp.getTime()).
\* With an Invalid Date among the elements the comparator returns NaN, it is
\* not a consistent comparator and the order is implementation-defined.
SortByTimestamp(seq) ==
    IF \E i \in 1..Len(seq) : seq[i].timestamp = NaN
    THEN Reorderings(seq)
    ELSE {StableSort(seq)}

\* "YYYY-MM-DD" strings compared as Array.prototype.sort compares strings
DateLess(a, b) ==
    \/ a[1] < b[1]
    \/ a[1] = b[1] /\ a[2] < b[2]
    \/ a[1] = b[1] /\ a[2] = b[2] /\ a[3] < b[3]

RECURSIVE SortDates(_)
\* Array.from(dates).sort()
SortDates(S) ==
    IF S = {} THEN <<>>
    ELSE LET m == CHOOSE x \in S : \A y \in S : ~DateLess(y, x)
         IN <<m>> \o SortDates(S \ {m})

Range(seq) == { seq[i] : i \in 1..Len(seq) }

-----------------------------------------------------------------------------
(* utils/parser.ts: extraction *)

\* LocationPoint; activity, name, placeId and semanticType are "" when undefined
PointOf(lat, lng, t, type, activity, name, placeId, semanticType) ==
    [lat |-> lat, lng |-> lng, timestamp |-> t, type |-> type, activity |-> activity,
     name |-> name, placeId |-> placeId, semanticType |-> semanticType]

LocationPoint(lat, lng, t, type, activity) == PointOf(lat, lng, t, type, activity, "", "", "")

\* a || b on strings
OrStr(a, b) == IF a # "" THEN a ELSE b

\* activity.topCandidate?.type || 'UNKNOWN'
activityTypeOf(segment) == OrStr(segment.activityType, "UNKNOWN")

\* the point pushed for a waypoint "lat,lng"
waypointLocation(wp, type, label) ==
    LocationPoint(parseFloat(Part(wp.point, 1)), parseFloat(Part(wp.point, 2)),
                  parseTimestamp(wp.time), type, label)

\* visit.topCandidate && visit.topCandidate.placeLocation
hasPlaceLocation(segment) ==
    segment.topCandidate.present /\ segment.topCandidate.placeLocation.present

\* address || name || 'Unknown Place'
placeName_addressFirst(loc) == OrStr(loc.address, OrStr(loc.name, "Unknown Place"))

\* name || address || 'Unknown Place'
placeName(loc) == OrStr(loc.name, OrStr(loc.address, "Unknown Place"))

\* the point pushed for a visit; placeId is topCandidate.placeID || topCandidate.placeId
\* in parser.ts and topCandidate.placeId in app.js
placePoint(segment, placeId) ==
    LET loc == segment.topCandidate.placeLocation
    IN PointOf(parseFloat(Part(loc.latLng, 1)), parseFloat(Part(loc.latLng, 2)),
               parseTimestamp(segment.startTime), "place", "",
               placeName(loc), placeId, segment.topCandidate.semanticType)

\* targetDateStr && timezone
shouldFilter(targetDateStr) == targetDateStr # NoDate

\* parser.ts extractLocations throws: placeLocation.latLng.split(',') on a
\* placeLocation without latLng is a TypeError
extractLocationsThrows(segment, targetDateStr, tz) ==
    /\ ~segment.activity
    /\ segment.visit
    /\ ~(shouldFilter(targetDateStr) /\ ~isDateMatch(segment.startTime, targetDateStr, tz))
    /\ hasPlaceLocation(segment)
    /\ segment.topCandidate.placeLocation.latLng = NoString

\* parser.ts extractLocations(segment, targetDateStr?, timezone?): the array of
\* points it returns when it does not throw
extractLocations(segment, targetDateStr, tz) ==
    LET keep(wp) == /\ wp.point # NoString
                    /\ Truthy(wp.time)
                    /\ (shouldFilter(targetDateStr) => isDateMatch(wp.time, targetDateStr, tz))
        path(type, label) ==
            LET f(wp) == IF keep(wp) THEN <<waypointLocation(wp, type, label)>> ELSE <<>>
            IN FlatMap(f, segment.timelinePath)
    IN IF segment.activity
       THEN IF Len(segment.timelinePath) > 0 THEN path("activity", activityTypeOf(segment)) ELSE <<>>
       ELSE IF segment.visit
       THEN IF shouldFilter(targetDateStr) /\ ~isDateMatch(segment.startTime, targetDateStr, tz)
            THEN <<>>
            ELSE IF hasPlaceLocation(segment)
            THEN <<placePoint(segment, OrStr(segment.topCandidate.placeID, segment.topCandidate.placeId))>>
            ELSE <<>>
       ELSE IF Len(segment.timelinePath) > 0 THEN path("path", "UNKNOWN")
       ELSE <<>>

\* signal.position || signal.signal?.position
positionOf(signal) == IF signal.position.present THEN signal.position ELSE signal.signal

\* the lat/lng pair extractRawSignal decodes, <<0, 0>> when lat and lng stay
\* undefined: the LatLng string, else point.latE7/lngE7, else latitudeE7/longitudeE7
decodePosition(pos) ==
    IF pos.LatLng # NoString
    THEN IF Len(pos.LatLng) = 2
         THEN <<parseFloat(pos.LatLng[1]), parseFloat(pos.LatLng[2])>>
         ELSE <<0, 0>>
    ELSE IF pos.latE7 # 0 /\ pos.lngE7 # 0 THEN <<pos.latE7, pos.lngE7>>
    ELSE IF pos.latitudeE7 # 0 /\ pos.longitudeE7 # 0 THEN <<pos.latitudeE7, pos.longitudeE7>>
    ELSE <<0, 0>>

\* !lat || !lng: undefined, 0 and NaN are falsy
undecoded(latlng) == latlng[1] = 0 \/ latlng[1] = NaN \/ latlng[2] = 0 \/ latlng[2] = NaN

\* parser.ts extractRawSignal: <<>> is null
extractRawSignal(signal) ==
    LET pos == positionOf(signal)
        latlng == decodePosition(pos)
    IN IF ~pos.present THEN <<>>
       ELSE IF undecoded(latlng) THEN <<>>
       ELSE <<LocationPoint(latlng[1], latlng[2],
                parseTimestamp(Or3(pos.timestamp, signal.additionalTimestamp, signal.timestamp)),
                "raw", "")>>

\* signal.position?.timestamp || signal.timestamp || signal.additionalTimestamp
scannedTimestamp(signal) ==
    Or3(IF signal.position.present THEN signal.position.timestamp ELSE Absent,
        signal.timestamp, signal.additionalTimestamp)

-----------------------------------------------------------------------------
(* utils/parser.ts: date discovery and the per-date parse *)

\* jsonData.rawSignals && jsonData.rawSignals.length > 0
hasRawSignals(doc) == ~doc.isArray /\ signalCount(doc) > 0

\* Array.isArray(jsonData) ? jsonData : jsonData.semanticSegments
segmentsOf(doc) == doc.semanticSegments

\* the timestamps whose dates the semantic branch of date discovery adds
segmentTimestamps(segment) ==
    (IF Truthy(segment.startTime) THEN {segment.startTime} ELSE {})
    \cup (IF Truthy(segment.endTime) THEN {segment.endTime} ELSE {})
    \cup { wp.time : wp \in { w \in Range(segment.timelinePath) : Truthy(w.time) } }

\* the timestamps date discovery passes to extractDateFromTimestamp
discoveryTimestamps(doc, raw) ==
    IF raw /\ hasRawSignals(doc)
    THEN { scannedTimestamp(sig) : sig \in { x \in Range(doc.rawSignals) : Truthy(scannedTimestamp(x)) } }
    ELSE IF ~doc.isArray
    THEN UNION { segmentTimestamps(seg) : seg \in Range(segmentsOf(doc)) }
    ELSE {}

\* parser.ts getUniqueDatesFromRaw(jsonData, useRaw): the sorted dates, or a
\* rejection when extractDateFromTimestamp throws
getUniqueDatesFromRaw(doc, raw) ==
    LET dates == { extractDateFromTimestamp(ts) : ts \in discoveryTimestamps(doc, raw) }
    IN IF Threw \in dates
       THEN [status |-> "threw", dates |-> <<>>]
       ELSE [status |-> "ok", dates |-> SortDates(dates)]

\* includeSegment of parseTimelineJSONForDate
includeSegment(segment, target, tz) ==
    \/ Truthy(segment.startTime) /\ isDateMatch(segment.startTime, target, tz)
    \/ Truthy(segment.endTime) /\ isDateMatch(segment.endTime, target, tz)
    \/ \E i \in 1..Len(segment.timelinePath) :
          /\ Truthy(segment.timelinePath[i].time)
          /\ isDateMatch(segment.timelinePath[i].time, target, tz)

\* the locations array of parseTimelineJSONForDate before the final sort
locationsForDate(doc, target, raw, tz) ==
    IF raw /\ hasRawSignals(doc)
    THEN LET f(sig) == IF Truthy(scannedTimestamp(sig)) /\ isDateMatch(scannedTimestamp(sig), target, tz)
                       THEN extractRawSignal(sig) ELSE <<>>
         IN FlatMap(f, doc.rawSignals)
    ELSE IF ~doc.isArray
    THEN LET g(seg) == IF includeSegment(seg, target, tz)
                       THEN extractLocations(seg, target, tz) ELSE <<>>
         IN FlatMap(g, segmentsOf(doc))
    ELSE <<>>

\* parser.ts parseTimelineJSONForDate rejects: extractLocations throws on a
\* segment of the date
parseTimelineJSONForDateThrows(doc, target, raw, tz) ==
    /\ ~(raw /\ hasRawSignals(doc))
    /\ ~doc.isArray
    /\ \E seg \in Range(segmentsOf(doc)) :
          includeSegment(seg, target, tz) /\ extractLocationsThrows(seg, target, tz)

\* parser.ts parseTimelineJSONForDate: the arrays it can return
parseTimelineJSONForDate(doc, target, raw, tz) ==
    SortByTimestamp(locationsForDate(doc, target, raw, tz))

-----------------------------------------------------------------------------
(* app.js: the full-file parse *)

\* app.js extractLocations throws: latLng.split(',') on an activity.start,
\* activity.end or placeLocation without latLng is a TypeError
app_extractLocationsThrows(segment) ==
    IF segment.activity
    THEN /\ Len(segment.timelinePath) = 0
         /\ \/ segment.start.present /\ segment.start.latLng = NoString
            \/ segment.end.present /\ segment.end.latLng = NoString
    ELSE /\ segment.visit
         /\ hasPlaceLocation(segment)
         /\ segment.topCandidate.placeLocation.latLng = NoString

\* app.js extractLocations(segment): the array it returns when it does not throw
app_extractLocations(segment) ==
    LET path(type, label) ==
            LET f(wp) == IF wp.point # NoString /\ Truthy(wp.time)
                         THEN <<waypointLocation(wp, type, label)>>
                         ELSE <<>>
            IN FlatMap(f, segment.timelinePath)
        endpoint(loc, t) ==
            IF loc.present
            THEN <<LocationPoint(parseFloat(Part(loc.latLng, 1)), parseFloat(Part(loc.latLng, 2)),
                                 parseTimestamp(t), "activity", activityTypeOf(segment))>>
            ELSE <<>>
    IN IF segment.activity
       THEN IF Len(segment.timelinePath) > 0 THEN path("activity", activityTypeOf(segment))
            ELSE endpoint(segment.start, segment.startTime) \o endpoint(segment.end, segment.endTime)
       ELSE IF segment.visit
       THEN IF hasPlaceLocation(segment)
            THEN <<placePoint(segment, segment.topCandidate.placeId)>>
            ELSE <<>>
       ELSE IF Len(segment.timelinePath) > 0 THEN path("path", "UNKNOWN")
       ELSE <<>>

\* app.js extractRawSignal(signal): timestamp from pos.timestamp || signal.additionalTimestamp
app_extractRawSignal(signal) ==
    LET pos == positionOf(signal)
        latlng == decodePosition(pos)
    IN IF ~pos.present THEN <<>>
       ELSE IF undecoded(latlng) THEN <<>>
       ELSE <<LocationPoint(latlng[1], latlng[2],
                parseTimestamp(Or2(pos.timestamp, signal.additionalTimestamp)), "raw", "")>>

\* the first pass of parseTimelineJSON: one range per activity or visit segment
activityRanges(segments) ==
    { [start |-> parseTimestamp(seg.startTime), end |-> parseTimestamp(seg.endTime)] :
        seg \in { x \in Range(segments) : x.activity \/ x.visit } }

\* segment.timelinePath && !segment.activity && !segment.visit
isStandalonePath(segment) ==
    Len(segment.timelinePath) > 0 /\ ~segment.activity /\ ~segment.visit

\* the overlaps test of parseTimelineJSON
overlaps(segment, ranges) ==
    LET segmentStart == parseTimestamp(segment.startTime)
        segmentEnd == parseTimestamp(segment.endTime)
    IN \E range \in ranges :
          \/ Leq(range.start, segmentStart) /\ Leq(segmentStart, range.end)
          \/ Leq(range.start, segmentEnd) /\ Leq(segmentEnd, range.end)
          \/ Leq(segmentStart, range.start) /\ Leq(range.end, segmentEnd)

\* the locations array of parseTimelineJSON before the final sort
app_locations(doc, raw) ==
    IF raw /\ hasRawSignals(doc)
    THEN FlatMap(app_extractRawSignal, doc.rawSignals)
    ELSE LET ranges == activityRanges(doc.semanticSegments)
             f(seg) == IF isStandalonePath(seg) /\ overlaps(seg, ranges)
                       THEN <<>> ELSE app_extractLocations(seg)
         IN FlatMap(f, doc.semanticSegments)

\* app.js parseTimelineJSON throws: extractLocations throws on a segment it keeps
parseTimelineJSONThrows(doc, raw) ==
    /\ ~(raw /\ hasRawSignals(doc))
    /\ \E seg \in Range(doc.semanticSegments) :
          /\ ~(isStandalonePath(seg) /\ overlaps(seg, activityRanges(doc.semanticSegments)))
          /\ app_extractLocationsThrows(seg)

\* app.js parseTimelineJSON(jsonData, useRaw): the arrays it can return
parseTimelineJSON(doc, raw) == SortByTimestamp(app_locations(doc, raw))

\* date.toLocaleString('en-US', {timeZone, year, month, day}): "MM/DD/YYYY"
toLocaleStringEnUS(t, tz) ==
    LET d == CivilDate((t + TzOffset(tz)) \div MinutesPerDay)
    IN <<d[2], d[3], d[1]>>

\* app.js: `${parts[2]}-${parts[0].padStart(2, '0')}-${parts[1].padStart(2, '0')}`
\* of the parts of the en-US date; "Invalid Date" has one part, and
\* parts[1].padStart throws a TypeError
app_isoDate(ts) ==
    IF parseTimestamp(ts) = NaN THEN Threw
    ELSE LET parts == toLocaleStringEnUS(parseTimestamp(ts), timezone)
         IN <<parts[3], parts[1], parts[2]>>

\* signal.position?.timestamp || signal.timestamp
app_scannedTimestamp(signal) ==
    Or2(IF signal.position.present THEN signal.position.timestamp ELSE Absent, signal.timestamp)

\* the timestamps the app.js per-date parse passes to isTargetDate
app_testedTimestamps(doc, raw) ==
    IF raw /\ hasRawSignals(doc)
    THEN { app_scannedTimestamp(sig) : sig \in { x \in Range(doc.rawSignals) : Truthy(app_scannedTimestamp(x)) } }
    ELSE { seg.startTime : seg \in { x \in Range(doc.semanticSegments) : Truthy(x.startTime) } }

\* the locations array of the app.js parseTimelineJSONForDate before the sort
app_locationsForDate(doc, target, raw) ==
    IF raw /\ hasRawSignals(doc)
    THEN LET f(sig) == IF Truthy(app_scannedTimestamp(sig)) /\ app_isoDate(app_scannedTimestamp(sig)) = target
                       THEN app_extractRawSignal(sig) ELSE <<>>
         IN FlatMap(f, doc.rawSignals)
    ELSE LET g(seg) == IF Truthy(seg.startTime) /\ app_isoDate(seg.startTime) = target
                       THEN app_extractLocations(seg) ELSE <<>>
         IN FlatMap(g, doc.semanticSegments)

\* app.js parseTimelineJSONForDate(jsonData, dateStr, useRaw): the results it
\* can give; isTargetDate throws on an unparseable timestamp
app_parseTimelineJSONForDate(doc, target, raw) ==
    IF \/ \E ts \in app_testedTimestamps(doc, raw) : app_isoDate(ts) = Threw
       \/ /\ ~(raw /\ hasRawSignals(doc))
          /\ \E seg \in Range(doc.semanticSegments) :
                /\ Truthy(seg.startTime)
                /\ app_isoDate(seg.startTime) = target
                /\ app_extractLocationsThrows(seg)
    THEN { [status |-> "threw", points |-> <<>>] }
    ELSE { [status |-> "ok", points |-> locs] :
             locs \in SortByTimestamp(app_locationsForDate(doc, target, raw)) }

\* app.js filterByDate(data, dateStr): the points whose date in the selected
\* timezone is dateStr
app_filterByDate(data, target) ==
    LET isoDate(t) ==
            LET parts == toLocaleStringEnUS(t, timezone)
            IN  <<parts[3], parts[1], parts[2]>>
        keep(loc) == IF isoDate(loc.timestamp) = target THEN <<loc>> ELSE <<>>
    IN  FlatMap(keep, data)

\* filterByDate throws: parts[1].padStart on the one part of "Invalid Date"
app_filterByDateThrows(data) == \E i \in 1..Len(data) : data[i].timestamp = NaN

-----------------------------------------------------------------------------
(* The parser under every document, timezone, date and mode *)

Unset == [status |-> "unset", dates |-> <<>>]
NoPoints == [status |-> "unset", points |-> <<>>]

\* the variables of the other parts, at rest
LocateIdle == bucket = <<>> /\ targetTimestamp = 0 /\ located = [status |-> "unset"]

ParseIdle ==
    /\ jsonData = Document(FALSE, <<>>, <<>>)
    /\ timezone = "UTC"
    /\ dateStr = CivilDate(0)
    /\ useRaw = TRUE
    /\ datesResult = Unset
    /\ pointsResult = NoPoints
    /\ fullResult = NoPoints
    /\ appPointsResult = NoPoints

NotDrawn == [status |-> "unset", lines |-> <<>>]

RouteIdle ==
    /\ locationCount = 0
    /\ targetIndex = 0
    /\ colorMode = "none"
    /\ features = NotDrawn
    /\ polylines = NotDrawn

ScanIdle == totalSignals = 0 /\ scanIndex = 0 /\ scanPc = "start" /\ visited = <<>>

NoFile == "none"
NoTimer == 0

Task(kind, file, date, raw, tz, req) ==
    [kind |-> kind, file |-> file, date |-> date, useRaw |-> raw, tz |-> tz,
     i |-> 0, req |-> req, at |-> Absent]

NoTask == Task("none", NoFile, NoDate, FALSE, "UTC", 0)

\* no request has been made
NoHistory ==
    [requests |-> 0, latest |-> NoTask, overtaken |-> FALSE,
     started |-> 0,          \* the request that last started playback
     sought |-> Absent,      \* the minute sought, when the last request was a slider seek
     loaded |-> NoTask]      \* the per-date load that last assigned currentDateData

AppIdle ==
    /\ state = [currentDateData |-> <<>>, availableDates |-> <<>>, selectedTimezone |-> "UTC",
                rawJsonData |-> NoFile, routeColorMode |-> "none", isPlaying |-> FALSE,
                lastRenderedIndex |-> -1]
    /\ dom = [useRawData |-> TRUE, dateSelect |-> NoDate, dateOptions |-> <<>>, timeSlider |-> 0]
    /\ playInterval = NoTimer
    /\ intervals = 0
    /\ store = [selectedDate |-> NoDate, timelineData |-> NoFile]
    /\ alerts = <<>>
    /\ timers = <<>>
    /\ reads = <<>>
    /\ io = <<>>
    /\ history = NoHistory

\* nothing extracted yet
NotExtracted == [status |-> "unset", by |-> "", points |-> <<>>]

ExtractIdle ==
    /\ inSegment = Segment(T1, T2, FALSE, TRUE, <<>>)
    /\ inSignal = RawSignal(Position(LatA, LngA, T1), NoPosition, Absent, Absent)
    /\ filterDate = NoDate
    /\ filterTimezone = "UTC"
    /\ extracted = NotExtracted

notParse == <<locateVars, routeVars, scanVars, appVars, extractVars>>
notLocate == <<parseVars, routeVars, scanVars, appVars, extractVars>>
notRoute == <<parseVars, locateVars, scanVars, appVars, extractVars>>
notScan == <<parseVars, locateVars, routeVars, appVars, extractVars>>
notApp == <<parseVars, locateVars, routeVars, scanVars, extractVars>>
notExtract == <<parseVars, locateVars, routeVars, scanVars, appVars>>

ParseInit ==
    /\ ExtractIdle
    /\ LocateIdle
    /\ RouteIdle
    /\ ScanIdle
    /\ AppIdle
    /\ jsonData \in Documents
    /\ timezone \in Timezones
    /\ dateStr \in Dates
    /\ useRaw \in BOOLEAN
    /\ datesResult = Unset
    /\ pointsResult = NoPoints
    /\ fullResult = NoPoints
    /\ appPointsResult = NoPoints

Fresh ==
    /\ datesResult.status = "unset"
    /\ pointsResult.status = "unset"
    /\ fullResult.status = "unset"
    /\ appPointsResult.status = "unset"

\* state.availableDates = await getUniqueDatesFromRaw(jsonData, useRaw)
Discover ==
    /\ Fresh
    /\ datesResult' = getUniqueDatesFromRaw(jsonData, useRaw)
    /\ UNCHANGED <<jsonData, timezone, dateStr, useRaw, pointsResult, fullResult, appPointsResult>>
    /\ UNCHANGED notParse

\* await parseTimelineJSONForDate(rawJsonData, dateStr, useRaw, selectedTimezone)
ParseForDate ==
    /\ Fresh
    /\ IF parseTimelineJSONForDateThrows(jsonData, dateStr, useRaw, timezone)
       THEN pointsResult' = [status |-> "threw", points |-> <<>>]
       ELSE \E locs \in parseTimelineJSONForDate(jsonData, dateStr, useRaw, timezone) :
               pointsResult' = [status |-> "ok", points |-> locs]
    /\ UNCHANGED <<jsonData, timezone, dateStr, useRaw, datesResult, fullResult, appPointsResult>>
    /\ UNCHANGED notParse

\* timelineData = parseTimelineJSON(rawJsonData, useRaw)
ParseFull ==
    /\ Fresh
    /\ IF parseTimelineJSONThrows(jsonData, useRaw)
       THEN fullResult' = [status |-> "threw", points |-> <<>>]
       ELSE \E locs \in parseTimelineJSON(jsonData, useRaw) :
               fullResult' = [status |-> "ok", points |-> locs]
    /\ UNCHANGED <<jsonData, timezone, dateStr, useRaw, datesResult, pointsResult, appPointsResult>>
    /\ UNCHANGED notParse

\* currentDateData = await parseTimelineJSONForDate(rawJsonData, dateStr, useRaw)  (app.js)
AppParseForDate ==
    /\ Fresh
    /\ appPointsResult' \in app_parseTimelineJSONForDate(jsonData, dateStr, useRaw)
    /\ UNCHANGED <<jsonData, timezone, dateStr, useRaw, datesResult, pointsResult, fullResult>>
    /\ UNCHANGED notParse

ParseNext == Discover \/ ParseForDate \/ ParseFull \/ AppParseForDate

SpecParse == ParseInit /\ [][ParseNext]_vars

-----------------------------------------------------------------------------
(* Claims about the parser *)

\* the calendar date of instant t in timezone tz
LocalDate(t, tz) == CivilDate((t + TzOffset(tz)) \div MinutesPerDay)

Parseable(ts) == ts >= 0

\* C1: date discovery returns exactly the calendar dates, taken in the selected
\* timezone, of the timestamps it scans, ascending and without duplicates
\* (stated for documents whose scanned timestamps all parse).
C1_DiscoveryInTimezone ==
    (/\ datesResult.status # "unset"
     /\ \A ts \in discoveryTimestamps(jsonData, useRaw) : Parseable(ts))
    => /\ datesResult.status = "ok"
       /\ datesResult.dates =
            SortDates({ LocalDate(ts, timezone) : ts \in discoveryTimestamps(jsonData, useRaw) })

\* C2: once date discovery has scanned the document, the per-date filter keeps
\* a scanned timestamp t for date d exactly when discovery mapped t to d, in the
\* selected timezone.
C2_FilterAgreesWithDiscovery ==
    datesResult.status = "ok" =>
        \A t \in discoveryTimestamps(jsonData, useRaw) :
            \A d \in Dates \cup Range(datesResult.dates) :
                isDateMatch(t, d, timezone) <=> (extractDateFromTimestamp(t) = d)

\* C3: every point returned by parseTimelineJSONForDate(json, d, useRaw, tz) has
\* a timestamp whose calendar date in tz is d.
C3_PointsOnTargetDate ==
    pointsResult.status = "ok" =>
        \A i \in 1..Len(pointsResult.points) :
            /\ pointsResult.points[i].timestamp # NaN
            /\ LocalDate(pointsResult.points[i].timestamp, timezone) = dateStr

semanticMode == ~(useRaw /\ hasRawSignals(jsonData))

\* inclusive intersection of the time ranges of two segments
Intersects(a, b) == a.startTime <= b.endTime /\ b.startTime <= a.endTime

\* the standalone paths of the document that no activity or visit intersects
FreePaths(doc) ==
    { seg \in Range(doc.semanticSegments) :
        /\ isStandalonePath(seg)
        /\ ~\E other \in Range(doc.semanticSegments) :
              (other.activity \/ other.visit) /\ Intersects(seg, other) }

\* every 'path' point of locs is a waypoint of a standalone path that no
\* activity or visit intersects
OnlyFreePaths(locs) ==
    \A i \in 1..Len(locs) :
        locs[i].type = "path" =>
            \E seg \in FreePaths(jsonData) : \E w \in Range(seg.timelinePath) :
                parseTimestamp(w.time) = locs[i].timestamp

\* C6: in semantic mode a standalone path whose range intersects the range of an
\* activity or visit contributes no points, in the full-file parse and in the
\* per-date parse.
C6_OverlappingPathsExcluded ==
    semanticMode =>
        /\ fullResult.status = "ok" => OnlyFreePaths(fullResult.points)
        /\ pointsResult.status = "ok" => OnlyFreePaths(pointsResult.points)
        /\ appPointsResult.status = "ok" => OnlyFreePaths(appPointsResult.points)

\* the full-file half of C6
FullParseExcludesOverlappingPaths ==
    (semanticMode /\ fullResult.status = "ok") => OnlyFreePaths(fullResult.points)

NonDecreasing(locs) ==
    \A i \in 1..(Len(locs) - 1) : Leq(locs[i].timestamp, locs[i + 1].timestamp)

\* C9: the array returned by parseTimelineJSONForDate and by parseTimelineJSON is
\* non-decreasing by timestamp.
C9_ResultSorted ==
    /\ pointsResult.status = "ok" => NonDecreasing(pointsResult.points)
    /\ appPointsResult.status = "ok" => NonDecreasing(appPointsResult.points)
    /\ fullResult.status = "ok" => NonDecreasing(fullResult.points)

\* the dates of the scanned timestamps that parse, as discovery computes them
DatesOfParseable(doc, raw) ==
    { extractDateFromTimestamp(ts) :
        ts \in { x \in discoveryTimestamps(doc, raw) : Parseable(x) } }

\* C11: a single malformed record (an unparseable timestamp string) is skipped
\* and the scan continues: date discovery still returns the dates of all other
\* records, and the per-date parse still returns a result, instead of failing
\* as a whole.
C11_MalformedRecordSkipped ==
    /\ datesResult.status # "unset" =>
          /\ datesResult.status = "ok"
          /\ datesResult.dates = SortDates(DatesOfParseable(jsonData, useRaw))
    /\ pointsResult.status # "unset" => pointsResult.status = "ok"
    /\ appPointsResult.status # "unset" => appPointsResult.status = "ok"
    /\ fullResult.status # "unset" => fullResult.status = "ok"

\* the arrays that parsing the whole document and filtering by the date can give
FullParseFiltered(doc, target, raw) ==
    { app_filterByDate(full, target) : full \in parseTimelineJSON(doc, raw) }

\* the whole-file parse and the filter both return
FullParseReturns(doc, raw) ==
    /\ ~parseTimelineJSONThrows(doc, raw)
    /\ \A full \in parseTimelineJSON(doc, raw) : ~app_filterByDateThrows(full)

\* C26: for every file, date d and timezone, parsing scoped to a date
\* (parseTimelineJSONForDate) returns the same point sequence as parsing the
\* whole file (parseTimelineJSON) and then filtering it by d (filterByDate), in
\* raw mode and in semantic mode (including segments crossing midnight and
\* standalone paths overlapping activities).
C26_ScopedParseEqualsFilteredFullParse ==
    (appPointsResult.status = "ok" /\ FullParseReturns(jsonData, useRaw)) =>
        appPointsResult.points \in FullParseFiltered(jsonData, dateStr, useRaw)

\* C26 in raw mode alone
ScopedParseEqualsFilteredFullParseRaw ==
    (/\ appPointsResult.status = "ok"
     /\ FullParseReturns(jsonData, useRaw)
     /\ useRaw
     /\ hasRawSignals(jsonData)) =>
        appPointsResult.points \in FullParseFiltered(jsonData, dateStr, useRaw)

\* what the scoped parse guarantees instead: every point of the whole-file
\* parse that lies on the date is returned unless its record was skipped
ScopedParseCoversFilteredRecords ==
    (/\ appPointsResult.status = "ok"
     /\ FullParseReturns(jsonData, useRaw)
     /\ ~(useRaw /\ hasRawSignals(jsonData))) =>
        \A full \in FullParseFiltered(jsonData, dateStr, useRaw) :
            \A seg \in Range(jsonData.semanticSegments) :
                (/\ Truthy(seg.startTime)
                 /\ app_isoDate(seg.startTime) = dateStr
                 /\ ~(isStandalonePath(seg)
                       /\ overlaps(seg, activityRanges(jsonData.semanticSegments)))) =>
                    \A loc \in Range(app_filterByDate(app_extractLocations(seg), dateStr)) :
                        loc \in Range(appPointsResult.points) /\ loc \in Range(full)

\* the object {semanticSegments: thatArray} for a document that is an array
AsObject(doc) == Document(FALSE, <<>>, doc.semanticSegments)

\* C15: when the parsed document is itself an array of semantic segments, date
\* discovery and the per-date parse return the same dates and the same points
\* as for the object {semanticSegments: thatArray}.
C15_ArrayDocumentAsSegmentList ==
    jsonData.isArray =>
        /\ datesResult.status # "unset" =>
              datesResult = getUniqueDatesFromRaw(AsObject(jsonData), useRaw)
        /\ pointsResult.status # "unset" =>
              pointsResult.points \in
                  parseTimelineJSONForDate(AsObject(jsonData), dateStr, useRaw, timezone)
        /\ appPointsResult.status # "unset" =>
              appPointsResult \in
                  app_parseTimelineJSONForDate(AsObject(jsonData), dateStr, useRaw)

\* the app.js half of C15
AppArrayDocumentAsSegmentList ==
    (jsonData.isArray /\ appPointsResult.status # "unset") =>
        appPointsResult \in app_parseTimelineJSONForDate(AsObject(jsonData), dateStr, useRaw)

-----------------------------------------------------------------------------
(* The extraction functions under every shape of segment and raw signal:
   extractLocations and extractRawSignal of utils/parser.ts and of app.js,
   each applied once to one argument. *)

\* 95 degrees and 200 degrees: no latitude, no longitude
LatOut == 95 * E7
LngOut == 200 * E7

\* activity.start / activity.end: missing, well-formed, without latLng, no number
Endpoints ==
    { NoLocation, PlainLocation, Location(NoString, "", ""), Location(<<Garbage>>, "", "") }

WaypointSet ==
    { Waypoint(LatA, LngA, T2),
      [point |-> <<Garbage>>, time |-> T2],           \* "somewhere"
      [point |-> <<LatA>>, time |-> T2],              \* "37.7749"
      [point |-> <<LatOut, LngOut>>, time |-> T2],    \* "95.0,200.0"
      [point |-> NoString, time |-> T2],              \* no point
      [point |-> <<LatA, LngA>>, time |-> Absent] }   \* no time

PlaceLocations ==
    { NoLocation,
      Location(NoString, "Home", ""),
      Location(<<Garbage>>, "Home", ""),
      Location(<<LatOut, LngOut>>, "Home", "") }
    \cup { Location(<<LatA, LngA>>, name, address) :
             name \in {"", "Home"}, address \in {"", "1 Main St"} }

Candidates ==
    { NoCandidate }
    \cup { Candidate(placeID, placeId, semanticType, loc) :
             placeID \in {"", "ChIJ-A"}, placeId \in {"", "ChIJ-B"},
             semanticType \in {"", "HOME"}, loc \in PlaceLocations }

ExtractSegments ==
    \* activities without a path
    { SegmentOf(T2, T3, TRUE, type, start, end, FALSE, NoCandidate, <<>>) :
        type \in {"", "WALKING"}, start \in Endpoints, end \in Endpoints }
    \* activities and standalone segments with a path of one waypoint
    \cup { SegmentOf(T2, T3, act, "WALKING", PlainLocation, PlainLocation, FALSE, NoCandidate, <<wp>>) :
             act \in BOOLEAN, wp \in WaypointSet }
    \* visits
    \cup { SegmentOf(s, T3, FALSE, "", NoLocation, NoLocation, TRUE, cand, <<>>) :
             s \in {T1, T2}, cand \in Candidates }

ExtractSignals ==
    RawSignalSet
    \cup { RawSignal(pos, NoPosition, T1, Absent) :
             pos \in { PositionOf(<<LatA, LngA>>, 0, 0, 0, 0, T1),         \* LatLng string
                       PositionOf(<<LatA>>, 0, 0, LatA, LngA, T1),         \* one part only
                       PositionOf(<<Garbage, Garbage>>, 0, 0, 0, 0, T1),   \* no numbers
                       PositionOf(<<LatOut, LngOut>>, 0, 0, 0, 0, T1),     \* out of range
                       PositionOf(NoString, LatA, LngA, 0, 0, T1),         \* point.latE7/lngE7
                       PositionOf(NoString, 0, 0, LatOut, LngOut, T1),     \* E7 out of range
                       PositionOf(NoString, 0, 0, 0, 0, T1) } }            \* no encoding

ExtractInit ==
    /\ ParseIdle
    /\ LocateIdle
    /\ RouteIdle
    /\ ScanIdle
    /\ AppIdle
    /\ \/ inSegment \in ExtractSegments
          /\ inSignal = RawSignal(Position(LatA, LngA, T1), NoPosition, Absent, Absent)
       \/ inSegment = Segment(T1, T2, FALSE, TRUE, <<>>)
          /\ inSignal \in ExtractSignals
    /\ filterDate \in {NoDate} \cup Dates
    /\ filterTimezone \in Timezones
    /\ extracted = NotExtracted

Extracted(by, points) == [status |-> "ok", by |-> by, points |-> points]
ExtractThrew(by) == [status |-> "threw", by |-> by, points |-> <<>>]

\* extractLocations(segment, dateStr, timezone) of utils/parser.ts
ExtractLocations ==
    /\ extracted.status = "unset"
    /\ extracted' = IF extractLocationsThrows(inSegment, filterDate, filterTimezone)
                    THEN ExtractThrew("extractLocations")
                    ELSE Extracted("extractLocations",
                                   extractLocations(inSegment, filterDate, filterTimezone))
    /\ UNCHANGED <<inSegment, inSignal, filterDate, filterTimezone>>
    /\ UNCHANGED notExtract

\* extractLocations(segment) of app.js
AppExtractLocations ==
    /\ extracted.status = "unset"
    /\ extracted' = IF app_extractLocationsThrows(inSegment)
                    THEN ExtractThrew("app_extractLocations")
                    ELSE Extracted("app_extractLocations", app_extractLocations(inSegment))
    /\ UNCHANGED <<inSegment, inSignal, filterDate, filterTimezone>>
    /\ UNCHANGED notExtract

\* extractRawSignal(signal) of utils/parser.ts
ExtractRawSignal ==
    /\ extracted.status = "unset"
    /\ extracted' = Extracted("extractRawSignal", extractRawSignal(inSignal))
    /\ UNCHANGED <<inSegment, inSignal, filterDate, filterTimezone>>
    /\ UNCHANGED notExtract

\* extractRawSignal(signal) of app.js
AppExtractRawSignal ==
    /\ extracted.status = "unset"
    /\ extracted' = Extracted("app_extractRawSignal", app_extractRawSignal(inSignal))
    /\ UNCHANGED <<inSegment, inSignal, filterDate, filterTimezone>>
    /\ UNCHANGED notExtract

ExtractNext == ExtractLocations \/ AppExtractLocations \/ ExtractRawSignal \/ AppExtractRawSignal

SpecExtract == ExtractInit /\ [][ExtractNext]_vars

-----------------------------------------------------------------------------
(* Claims about the extraction functions *)

\* extractLocations of either implementation has been applied to inSegment
SegmentExtracted == extracted.by \in {"extractLocations", "app_extractLocations"}

\* t is unfiltered: no target date is given, or t falls on it
OnFilterDate(t) ==
    \/ extracted.by = "app_extractLocations"
    \/ filterDate = NoDate
    \/ LocalDate(t, filterTimezone) = filterDate

\* a location object with a latLng string of two numbers
WellFormed(loc) ==
    /\ loc.present
    /\ Len(loc.latLng) = 2
    /\ loc.latLng[1] # Garbage
    /\ loc.latLng[2] # Garbage

\* C16: an activity segment that has no waypoint path yields exactly two points
\* of type 'activity': one timestamped at startTime and decoded from the
\* activity's start location, one at endTime decoded from its end location, both
\* labelled with the top-candidate activity type (UNKNOWN when absent).  Stated
\* for segments whose start and end locations are both present and well-formed
\* and whose startTime and endTime pass the date filter.
C16_ActivityWithoutPathYieldsEndpoints ==
    (/\ SegmentExtracted
     /\ inSegment.activity
     /\ Len(inSegment.timelinePath) = 0
     /\ WellFormed(inSegment.start)
     /\ WellFormed(inSegment.end)
     /\ OnFilterDate(inSegment.startTime)
     /\ OnFilterDate(inSegment.endTime))
    => /\ extracted.status = "ok"
       /\ Len(extracted.points) = 2
       /\ \A i \in 1..2 :
             /\ extracted.points[i].type = "activity"
             /\ extracted.points[i].activity =
                   (IF inSegment.activityType = "" THEN "UNKNOWN" ELSE inSegment.activityType)
       /\ extracted.points[1].timestamp = inSegment.startTime
       /\ extracted.points[1].lat = inSegment.start.latLng[1]
       /\ extracted.points[1].lng = inSegment.start.latLng[2]
       /\ extracted.points[2].timestamp = inSegment.endTime
       /\ extracted.points[2].lat = inSegment.end.latLng[1]
       /\ extracted.points[2].lng = inSegment.end.latLng[2]

\* the app.js half of C16
AppActivityWithoutPathYieldsEndpoints ==
    extracted.by = "app_extractLocations" => C16_ActivityWithoutPathYieldsEndpoints

\* the place point the claims describe for the visit inSegment
IsPlacePointOf(p, placeId) ==
    LET cand == inSegment.topCandidate
        loc == cand.placeLocation
    IN /\ p.type = "place"
       /\ p.timestamp = inSegment.startTime
       /\ p.name = (IF loc.name # "" THEN loc.name
                    ELSE IF loc.address # "" THEN loc.address
                    ELSE "Unknown Place")
       /\ p.placeId = placeId
       /\ p.semanticType = cand.semanticType

VisitExtracted == SegmentExtracted /\ inSegment.visit /\ ~inSegment.activity

CopiedPlaceId ==
    IF extracted.by = "extractLocations" /\ inSegment.topCandidate.placeID # ""
    THEN inSegment.topCandidate.placeID
    ELSE inSegment.topCandidate.placeId

C18_CoordinatesFiniteAndInRange ==
    \A i \in 1..Len(extracted.points) :
        LET p == extracted.points[i]
        IN /\ p.lat # NaN
           /\ p.lng # NaN
           /\ 0 - 90 * E7 <= p.lat /\ p.lat <= 90 * E7
           /\ 0 - 180 * E7 <= p.lng /\ p.lng <= 180 * E7

-----------------------------------------------------------------------------
(* app.js: the time index over the current day bucket.  A bucket is the
   sequence currentDateData; its points are reduced to their timestamp.
   A quotient is the pair <<numerator, denominator>>: <<0, 0>> is NaN and
   <<1, 0>> is Infinity. *)

MaxBucket == 4
MaxTime == 3

Divide(a, b) == IF b # 0 THEN <<a, b>> ELSE IF a = 0 THEN <<0, 0>> ELSE <<1, 0>>

Zero == <<0, 1>>

Found(i, factor) == [status |-> "found", index |-> i, interpolation |-> factor]

\* the pairs (i, i + 1) the loop tests, 0-based as in the source
Brackets(data, timestamp) ==
    { i \in 0..(Len(data) - 2) :
        timestamp >= data[i + 1].timestamp /\ timestamp <= data[i + 2].timestamp }

Least(S) == CHOOSE i \in S : \A j \in S : i <= j

\* a lookup whose loop tests timestamp > t1 && timestamp < t2
findDataPointsForTimestamp_strict(data, timestamp) ==
    LET Inner == { i \in 0..(Len(data) - 2) :
                     timestamp > data[i + 1].timestamp /\ timestamp < data[i + 2].timestamp }
    IN  IF Len(data) = 0 THEN [status |-> "null"]
        ELSE IF timestamp <= data[1].timestamp THEN Found(0, Zero)
        ELSE IF timestamp >= data[Len(data)].timestamp THEN Found(Len(data) - 1, Zero)
        ELSE IF Inner # {}
             THEN LET i == Least(Inner)
                  IN  Found(i, Divide(timestamp - data[i + 1].timestamp,
                                      data[i + 2].timestamp - data[i + 1].timestamp))
             ELSE Found(0, Zero)

findDataPointsForTimestamp(data, timestamp) ==
    IF Len(data) = 0 THEN [status |-> "null"]
    ELSE IF timestamp <= data[1].timestamp THEN Found(0, Zero)
    ELSE IF timestamp >= data[Len(data)].timestamp THEN Found(Len(data) - 1, Zero)
    ELSE IF Brackets(data, timestamp) # {}
         THEN LET i == Least(Brackets(data, timestamp))
              IN  Found(i, Divide(timestamp - data[i + 1].timestamp,
                                  data[i + 2].timestamp - data[i + 1].timestamp))
         ELSE Found(0, Zero)

\* the buckets the parser's final sort leaves: non-decreasing by timestamp
SortedBuckets ==
    { b \in SeqUpTo([timestamp : 0..MaxTime], MaxBucket) :
        \A i \in 1..(Len(b) - 1) : b[i].timestamp <= b[i + 1].timestamp }

LocateInit ==
    /\ ExtractIdle
    /\ ParseIdle
    /\ RouteIdle
    /\ ScanIdle
    /\ AppIdle
    /\ bucket \in SortedBuckets
    /\ targetTimestamp \in 0..MaxTime
    /\ located = [status |-> "unset"]

\* const result = findDataPointsForTimestamp(timestamp)
Locate ==
    /\ located.status = "unset"
    /\ located' = findDataPointsForTimestamp(bucket, targetTimestamp)
    /\ UNCHANGED <<bucket, targetTimestamp>>
    /\ UNCHANGED notLocate

LocateNext == Locate

SpecLocate == LocateInit /\ [][LocateNext]_vars

-----------------------------------------------------------------------------
(* Claims about the time index *)

StrictlyIncreasing(b) == \A i \in 1..(Len(b) - 1) : b[i].timestamp < b[i + 1].timestamp

\* C7: for a bucket sorted by timestamp (timestamps distinct) and a query equal
\* to the timestamp of an interior point k, 0 < k < last, the lookup returns
\* index k with interpolation 0.
C7_ExactInteriorHit ==
    (located.status # "unset" /\ StrictlyIncreasing(bucket)) =>
        \A k \in 1..(Len(bucket) - 2) :
            bucket[k + 1].timestamp = targetTimestamp =>
                /\ located.status = "found"
                /\ located.index = k
                /\ located.interpolation = Zero

StrictlyInside ==
    /\ Len(bucket) > 0
    /\ bucket[1].timestamp < targetTimestamp
    /\ targetTimestamp < bucket[Len(bucket)].timestamp

\* C8: for a sorted bucket and a query strictly between the first and the last
\* timestamp, the lookup returns an index i with t[i] <= q <= t[i+1] and the
\* interpolation (q - t[i]) / (t[i+1] - t[i]), whose denominator is not zero
\* and whose value lies in [0, 1]; it is never NaN, duplicates included.
C8_BracketAndInterpolation ==
    (located.status # "unset" /\ StrictlyInside) =>
        /\ located.status = "found"
        /\ located.index \in 0..(Len(bucket) - 2)
        /\ LET i == located.index
               t1 == bucket[i + 1].timestamp
               t2 == bucket[i + 2].timestamp
               num == located.interpolation[1]
               den == located.interpolation[2]
           IN  /\ t1 <= targetTimestamp /\ targetTimestamp <= t2
               /\ den > 0
               /\ num * (t2 - t1) = (targetTimestamp - t1) * den
               /\ 0 <= num /\ num <= den

\* a query strictly inside a bucket that holds the query's timestamp twice
C8_Witness ==
    /\ located.status = "found"
    /\ StrictlyInside
    /\ \E i \in 1..(Len(bucket) - 1) :
          /\ bucket[i].timestamp = targetTimestamp
          /\ bucket[i + 1].timestamp = targetTimestamp

-----------------------------------------------------------------------------
(* The route reducer: MapboxMap.updateRoute and the route-building step of
   updateMap in app.js.  Points are named by their index in the bucket; a line
   is the sequence of the indices of its coordinates. *)

MaxSmallIndex == 30
Window == 3

maxPoints == 1000

Max(a, b) == IF a >= b THEN a ELSE b
Min(a, b) == IF a <= b THEN a ELSE b

\* a speed is the quotient num / den of two naturals, den > 0
getSpeedColor(num, den) ==
    IF num < 1 * den THEN "#ef4444"
    ELSE IF num < 5 * den THEN "#eab308"
    ELSE IF num < 15 * den THEN "#22c55e"
    ELSE "#3b82f6"

activityColors ==
    [WALKING |-> "#22c55e", RUNNING |-> "#f97316", CYCLING |-> "#8b5cf6",
     MOTORCYCLING |-> "#d946ef", IN_VEHICLE |-> "#3b82f6",
     IN_PASSENGER_VEHICLE |-> "#3b82f6", IN_ROAD_VEHICLE |-> "#3b82f6",
     DRIVING |-> "#3b82f6", IN_SUBWAY |-> "#a855f7", IN_RAIL_VEHICLE |-> "#06b6d4",
     IN_BUS |-> "#f59e0b", FLYING |-> "#ec4899", STILL |-> "#ef4444",
     UNKNOWN |-> "#9ca3af"]

getActivityColor(activity) ==
    IF activity \in DOMAIN activityColors THEN activityColors[activity] ELSE "#4285f4"

\* the bucket being drawn: point i is 10 s after point i - 1, lies x metres
\* along a line, and carries an optional speed (m/s) and activity ("" if none)
RoutePoint(i) ==
    [timestamp |-> 10 * i,
     x         |-> 40 * i + 30 * (i % 3),
     type      |-> IF i % 5 = 0 THEN "place" ELSE "raw",
     speed     |-> CASE i % 4 = 0 -> Absent
                     [] i % 4 = 1 -> 0
                     [] i % 4 = 2 -> 3
                     [] OTHER     -> 20,
     activity  |-> CASE i % 3 = 0 -> ""
                     [] i % 3 = 1 -> "WALKING"
                     [] OTHER     -> "HIKING"]

Feature(color, coordinates) == [color |-> color, coordinates |-> coordinates]

routeStep(target) == Max(1, target \div maxPoints)

\* the sampling loop alone, without "Always include last point"
sampledCoordinates_nolast(target) ==
    LET step == routeStep(target)
        n == target \div step + 1
    IN  [k \in 1..n |-> (k - 1) * step]

\* the sampling loop with the last point pushed unconditionally
sampledCoordinates_lastAlways(target) ==
    LET step == routeStep(target)
        n == target \div step + 1
        sampled == [k \in 1..n |-> (k - 1) * step]
    IN  Append(sampled, target)

\* for (let i = 0; i <= targetIndex; i += step) plus the last point
sampledCoordinates(target) ==
    LET step == routeStep(target)
        n == target \div step + 1
        sampled == [k \in 1..n |-> (k - 1) * step]
    IN  IF target % step # 0 THEN Append(sampled, target) ELSE sampled

\* the start indices of for (let i = 0; i < targetIndex; i += step)
segmentStarts(target) ==
    LET step == routeStep(target)
        n == (target + step - 1) \div step
    IN  [k \in 1..n |-> (k - 1) * step]

Drawn(lines) == [status |-> "set", lines |-> lines]

\* if (locations.length === 0) return
Returned == [status |-> "returned", lines |-> <<>>]

updateRoute(count, target, mode) ==
    IF count = 0 THEN Returned
    ELSE Drawn(
    IF mode = "none"
    THEN LET coordinates == sampledCoordinates(target)
         IN  IF Len(coordinates) > 1 THEN << Feature("#4285f4", coordinates) >> ELSE << >>
    ELSE LET starts == segmentStarts(target)
             segment(i) ==
                 LET nextIndex == Min(i + routeStep(target), target)
                     p == RoutePoint(i)
                     color == IF mode = "speed" /\ p.speed # Absent
                              THEN getSpeedColor(p.speed, 1)
                              ELSE IF mode = "activity" /\ p.activity # ""
                              THEN getActivityColor(p.activity)
                              ELSE "#4285f4"
                 IN  Feature(color, [j \in 1..(nextIndex - i + 1) |-> i + j - 1])
         IN  [k \in 1..Len(starts) |-> segment(starts[k])])

app_routePolylines(count, target, mode) ==
    IF count = 0 THEN Returned
    ELSE Drawn(
    IF mode = "none"
    THEN LET routePoints == sampledCoordinates(target)
         IN  IF Len(routePoints) > 1 THEN << Feature("#4285f4", routePoints) >> ELSE << >>
    ELSE LET starts == segmentStarts(target)
             segment(i) ==
                 LET point1 == RoutePoint(i)
                     j == Min(i + routeStep(target), target)
                     point2 == RoutePoint(j)
                     timeDiff == point2.timestamp - point1.timestamp
                     distance == IF point2.x >= point1.x THEN point2.x - point1.x
                                 ELSE point1.x - point2.x
                     color == IF mode = "speed"
                              THEN IF timeDiff > 0 THEN getSpeedColor(distance, timeDiff)
                                   ELSE getSpeedColor(0, 1)
                              ELSE IF mode = "activity"
                              THEN getActivityColor(
                                     IF point1.activity # "" THEN point1.activity
                                     ELSE IF point1.type = "place" THEN "STILL" ELSE "UNKNOWN")
                              ELSE "#4285f4"
                 IN  Feature(color, <<i, j>>)
         IN  [k \in 1..Len(starts) |-> segment(starts[k])])

\* the indices drawn: the small ones, those around the multiples of maxPoints
\* and the last index of a bucket of 2500 points
TargetIndexes ==
    (0..MaxSmallIndex) \cup
    { k * maxPoints + d : k \in 1..2, d \in (0 - Window)..Window } \cup
    { 2499 }

RouteInit ==
    /\ ExtractIdle
    /\ ParseIdle
    /\ LocateIdle
    /\ ScanIdle
    /\ AppIdle
    /\ targetIndex \in TargetIndexes
    /\ locationCount \in {0, targetIndex + 1, targetIndex + 2}
    /\ locationCount = 0 => targetIndex = 0
    /\ colorMode \in {"none", "speed", "activity"}
    /\ features = NotDrawn
    /\ polylines = NotDrawn

Undrawn == features = NotDrawn /\ polylines = NotDrawn

\* mapboxMap.updateRoute(locations, targetIndex, colorMode)
UpdateRoute ==
    /\ Undrawn
    /\ features' = updateRoute(locationCount, targetIndex, colorMode)
    /\ UNCHANGED <<locationCount, targetIndex, colorMode, polylines>>
    /\ UNCHANGED notRoute

\* updateMap(progress), from "Remove old polylines" to lastRenderedIndex = targetIndex
AppUpdateMap ==
    /\ Undrawn
    /\ polylines' = app_routePolylines(locationCount, targetIndex, colorMode)
    /\ UNCHANGED <<locationCount, targetIndex, colorMode, features>>
    /\ UNCHANGED notRoute

RouteNext == UpdateRoute \/ AppUpdateMap

SpecRoute == RouteInit /\ [][RouteNext]_vars

-----------------------------------------------------------------------------
(* Claims about the route reducer *)

\* C4: for every bucket and every targetIndex the route reducer produces at most
\* 1000 line segments, in each of the color modes none, speed and activity.
C4_AtMostMaxSegments ==
    /\ features.status = "set" => Len(features.lines) <= maxPoints
    /\ polylines.status = "set" => Len(polylines.lines) <= maxPoints

\* the last coordinate of the last line
LastCoordinate(lines) ==
    LET coordinates == lines[Len(lines)].coordinates
    IN  coordinates[Len(coordinates)]

\* C12: whenever the route reducer emits at least one segment, the last
\* coordinate of the last emitted segment is the point at targetIndex of the
\* bucket, in every color mode and for every stride (targetIndex a multiple of
\* the step or not).
C12_RouteEndsAtTarget ==
    /\ (features.status = "set" /\ Len(features.lines) > 0)
          => LastCoordinate(features.lines) = targetIndex
    /\ (polylines.status = "set" /\ Len(polylines.lines) > 0)
          => LastCoordinate(polylines.lines) = targetIndex

\* a route drawn with a stride of 2 up to a targetIndex that is not a multiple
\* of the stride
C12_Witness ==
    /\ features.status = "set"
    /\ Len(features.lines) > 0
    /\ routeStep(targetIndex) > 1
    /\ targetIndex % routeStep(targetIndex) # 0
    /\ LastCoordinate(features.lines) = targetIndex

\* the activity label of a point: its own, else STILL for a place, else UNKNOWN
LabelOf(p) ==
    IF p.activity # "" THEN p.activity
    ELSE IF p.type = "place" THEN "STILL" ELSE "UNKNOWN"

ColoredByFirstLabel(lines) ==
    \A k \in 1..Len(lines) :
        lines[k].color = getActivityColor(LabelOf(RoutePoint(lines[k].coordinates[1])))

\* C20: in activity color mode each route segment is colored by getActivityColor
\* of the label of the segment's first point, where a point without a label
\* counts as STILL if its type is 'place' and as UNKNOWN otherwise.
C20_ActivityColorOfFirstPoint ==
    colorMode = "activity" =>
        /\ features.status = "set" => ColoredByFirstLabel(features.lines)
        /\ polylines.status = "set" => ColoredByFirstLabel(polylines.lines)

\* the app.js half of C20
AppActivityColorOfFirstPoint ==
    (colorMode = "activity" /\ polylines.status = "set") => ColoredByFirstLabel(polylines.lines)

\* the color of the speed v of a line: the measured speed of its first point,
\* else the distance between its two endpoints over the elapsed seconds
SpeedColorOf(coordinates) ==
    LET p == RoutePoint(coordinates[1])
        q == RoutePoint(coordinates[Len(coordinates)])
        elapsed == q.timestamp - p.timestamp
        distance == IF q.x >= p.x THEN q.x - p.x ELSE p.x - q.x
    IN  IF p.speed # Absent THEN getSpeedColor(p.speed, 1)
        ELSE IF elapsed > 0 THEN getSpeedColor(distance, elapsed)
        ELSE getSpeedColor(0, 1)

SpeedColors == {"#ef4444", "#eab308", "#22c55e", "#3b82f6"}

ColoredBySpeed(lines) ==
    \A k \in 1..Len(lines) :
        /\ lines[k].color = SpeedColorOf(lines[k].coordinates)
        /\ lines[k].color \in SpeedColors

\* C21: in speed color mode each route segment is colored by the speed
\* thresholds (red below 1, yellow below 5, green below 15, blue otherwise, in
\* m/s) of v, the first point's measured speed when it has one and otherwise
\* the distance between the segment's endpoints over the elapsed seconds; every
\* segment gets one of the four colors.
C21_SpeedColorByThresholds ==
    colorMode = "speed" =>
        /\ features.status = "set" => ColoredBySpeed(features.lines)
        /\ polylines.status = "set" => ColoredBySpeed(polylines.lines)

\* the halves of C21, one per implementation
SpeedColorByThresholdsMapbox ==
    (colorMode = "speed" /\ features.status = "set") => ColoredBySpeed(features.lines)

SpeedColorByThresholdsApp ==
    (colorMode = "speed" /\ polylines.status = "set") => ColoredBySpeed(polylines.lines)

\* what each implementation does in place of C21: updateRoute uses the measured
\* speed and otherwise the default color, updateMap of app.js always derives
\* the speed from the endpoints
SpeedColorAsImplemented ==
    colorMode = "speed" =>
        /\ features.status = "set" =>
              \A k \in 1..Len(features.lines) :
                  LET p == RoutePoint(features.lines[k].coordinates[1])
                  IN  features.lines[k].color =
                          IF p.speed # Absent THEN getSpeedColor(p.speed, 1) ELSE "#4285f4"
        /\ polylines.status = "set" =>
              \A k \in 1..Len(polylines.lines) :
                  polylines.lines[k].color \in SpeedColors

\* the indices 0, step, 2 * step, ... not above target, and target
StrideIndexes(target, step) == { i \in 0..target : i % step = 0 } \cup {target}

\* coordinates lists exactly the indices of S, in increasing order, each once
ListsInOrder(coordinates, S) ==
    /\ Range(coordinates) = S
    /\ \A i \in 1..(Len(coordinates) - 1) : coordinates[i] < coordinates[i + 1]

SingleLineOfStride(lines) ==
    LET step == Max(1, targetIndex \div 1000)
    IN  /\ Len(lines) <= 1
        /\ Len(lines) = 1 <=> targetIndex >= 1
        /\ Len(lines) = 1 =>
              /\ ListsInOrder(lines[1].coordinates, StrideIndexes(targetIndex, step))
              /\ lines[1].color = "#4285f4"
              /\ targetIndex = 2499 => step = 2 /\ Len(lines[1].coordinates) <= 1251

\* C27: in color mode 'none', with step = max(1, floor(targetIndex / 1000)),
\* the single emitted line consists of exactly the points at indices 0, step,
\* 2*step, ... not exceeding targetIndex, in increasing order, followed by the
\* point at targetIndex if and only if targetIndex is not a multiple of step, so
\* the final point appears exactly once; for 2500 points and targetIndex 2499
\* this gives step 2 and at most 1251 vertices.
C27_SingleLineOfEveryStepthPoint ==
    colorMode = "none" =>
        /\ features.status = "set" => SingleLineOfStride(features.lines)
        /\ polylines.status = "set" => SingleLineOfStride(polylines.lines)

\* the line of a bucket of 2500 points drawn up to its last point
C27_Witness ==
    /\ colorMode = "none"
    /\ locationCount = 2500
    /\ targetIndex = 2499
    /\ features.status = "set"
    /\ Len(features.lines) = 1
    /\ Len(features.lines[1].coordinates) = 1251
    /\ LastCoordinate(features.lines) = 2499

-----------------------------------------------------------------------------
(* parser.ts: the chunked scan over rawSignals, as written in
   getUniqueDatesFromRaw and again in parseTimelineJSONForDate.  One step of
   the model is one slice: the inner loop  for (j = i; j < end; j++)  visits
   the indices i .. end - 1 in increasing order and is recorded as that range. *)

MaxChunks == 2
ScanWindow == 20

chunkSize == 10000

\* the lengths scanned: around every multiple of the chunk size, 0 included
SignalCounts ==
    { n \in { k * chunkSize + d : k \in 0..MaxChunks, d \in (0 - ScanWindow)..ScanWindow } :
        n >= 0 }

Visit(from, to) == [kind |-> "visit", from |-> from, to |-> to]
Yield == [kind |-> "yield", from |-> 0, to |-> 0]

\* a slice whose end is not clamped to the length
chunkEnd_unclamped(i, total) == i + chunkSize

\* const end = Math.min(i + chunkSize, totalSignals)
chunkEnd(i, total) == Min(i + chunkSize, total)

ScanInit ==
    /\ ExtractIdle
    /\ ParseIdle
    /\ LocateIdle
    /\ RouteIdle
    /\ AppIdle
    /\ totalSignals \in SignalCounts
    /\ scanIndex = 0
    /\ scanPc = "start"
    /\ visited = <<>>

\* if (useRaw && jsonData.rawSignals && jsonData.rawSignals.length > 0)
ScanStart ==
    /\ scanPc = "start"
    /\ scanPc' = IF totalSignals > 0 THEN "loop" ELSE "done"
    /\ UNCHANGED <<totalSignals, scanIndex, visited>>
    /\ UNCHANGED notScan

\* one iteration of  for (let i = 0; i < totalSignals; i += chunkSize)
ScanChunk ==
    /\ scanPc = "loop"
    /\ scanIndex < totalSignals
    /\ visited' = Append(visited, Visit(scanIndex, chunkEnd(scanIndex, totalSignals) - 1))
    /\ IF scanIndex + chunkSize < totalSignals
       THEN scanPc' = "yield" /\ scanIndex' = scanIndex
       ELSE scanPc' = "loop" /\ scanIndex' = scanIndex + chunkSize
    /\ UNCHANGED totalSignals
    /\ UNCHANGED notScan

\* the timer of  await new Promise((resolve) => setTimeout(resolve, 0))  fires
ScanResume ==
    /\ scanPc = "yield"
    /\ visited' = Append(visited, Yield)
    /\ scanIndex' = scanIndex + chunkSize
    /\ scanPc' = "loop"
    /\ UNCHANGED totalSignals
    /\ UNCHANGED notScan

\* the loop condition i < totalSignals fails
ScanFinish ==
    /\ scanPc = "loop"
    /\ ~(scanIndex < totalSignals)
    /\ scanPc' = "done"
    /\ UNCHANGED <<totalSignals, scanIndex, visited>>
    /\ UNCHANGED notScan

ScanNext == ScanStart \/ ScanChunk \/ ScanResume \/ ScanFinish

SpecScan == ScanInit /\ [][ScanNext]_vars

-----------------------------------------------------------------------------
(* Claims about the chunked scan *)

\* the positions of the slices in the record of the scan
VisitPositions == { k \in 1..Len(visited) : visited[k].kind = "visit" }

-----------------------------------------------------------------------------
(* main.ts: the application.  A handler runs to its next await on a timer, a
   file read or an IndexedDB request; an await on a promise that is already
   settled continues in the same step.  The operators below take the whole
   application w and return the set of applications the code can leave. *)

MaxRequests == 3
PadSignals == 10000
MaxTicks == 2        \* minutes of playback followed

\* the uploaded files: one whose rawSignals span two chunks, one that is small,
\* one whose text is not JSON, and one that is JSON of another shape ({"a": 1})
AppFiles == {"big", "small", "invalid", "wrongshape"}

\* the files that hold timeline data
ValidFiles == {"big", "small"}

\* JSON.parse(text) throws a SyntaxError
isInvalidJSON(f) == f = "invalid"

\* JSON.parse(text) of the files that parse
FileDocument(f) ==
    CASE f = "big" ->
           [isArray |-> FALSE,
            rawSignals |-> << RawSignal(Position(LatA, LngA, T1), NoPosition, Absent, Absent),
                              RawSignal(Position(LatA, LngA, T3), NoPosition, Absent, Absent) >>,
            rawPad |-> PadSignals,
            semanticSegments |-> << Segment(T1, T2, FALSE, TRUE, <<>>),
                                    Segment(T3, T3, FALSE, TRUE, <<>>) >>]
      [] f = "small" ->
           \* two fixes in the same minute, 0.0001 degree apart
           Document(FALSE,
                    << RawSignal(Position(LatA, LngA, T2), NoPosition, Absent, Absent),
                       RawSignal(Position(LatA + 1000, LngA, T2), NoPosition, Absent, Absent) >>,
                    << Segment(T3, T3, FALSE, TRUE, <<>>) >>)
      [] OTHER -> Document(FALSE, <<>>, <<>>)

World ==
    [state |-> state, dom |-> dom, playInterval |-> playInterval, intervals |-> intervals,
     store |-> store, alerts |-> alerts, timers |-> timers, reads |-> reads, io |-> io,
     history |-> history]

alert(w, message) == [w EXCEPT !.alerts = Append(@, message)]

\* if (i + chunkSize < totalSignals) await new Promise(setTimeout), in the raw branch
scanYields(t) ==
    /\ t.useRaw
    /\ hasRawSignals(FileDocument(t.file))
    /\ t.i + chunkSize < signalCount(FileDocument(t.file))

\* if (playInterval) { clearInterval(playInterval); playInterval = null }
clearPlayInterval(w) ==
    IF w.playInterval = NoTimer THEN w
    ELSE [w EXCEPT !.intervals = @ - 1, !.playInterval = NoTimer]

\* stopPlayback without the clearInterval block
stopPlayback_keepInterval(w) ==
    IF ~w.state.isPlaying THEN w
    ELSE [w EXCEPT !.state.isPlaying = FALSE]

stopPlayback(w) ==
    IF ~w.state.isPlaying THEN w
    ELSE clearPlayInterval([w EXCEPT !.state.isPlaying = FALSE])

\* the id window.setInterval returns
PlayTimer == 1

\* the last minute of the slider
LastMinute == 1439

\* minute of the day of instant t in timezone tz (NaN for an invalid Date)
pointMinute(t, tz) == IF t = NaN THEN NaN ELSE (t + TzOffset(tz)) % MinutesPerDay

minuteToIndex(data, minute, tz) ==
    LET hits == { i \in 0..(Len(data) - 1) :
                    /\ pointMinute(data[i + 1].timestamp, tz) # NaN
                    /\ pointMinute(data[i + 1].timestamp, tz) >= minute }
    IN  IF Len(data) = 0 THEN 0
        ELSE IF hits # {} THEN Least(hits)
        ELSE Len(data) - 1

\* minuteToIndex(minute) for the number minute = num / den, den > 0
minuteToIndexOfQuotient(data, num, den, tz) ==
    LET hits == { i \in 0..(Len(data) - 1) :
                    /\ pointMinute(data[i + 1].timestamp, tz) # NaN
                    /\ pointMinute(data[i + 1].timestamp, tz) * den >= num }
    IN  IF Len(data) = 0 THEN 0
        ELSE IF hits # {} THEN Least(hits)
        ELSE Len(data) - 1

updateMap(w, minute) ==
    IF Len(w.state.currentDateData) = 0 THEN w
    ELSE [w EXCEPT !.state.lastRenderedIndex =
                      minuteToIndex(w.state.currentDateData, minute, w.state.selectedTimezone)]

\* updateMap(minute) for the number minute = num / den
updateMapOfQuotient(w, num, den) ==
    IF Len(w.state.currentDateData) = 0 THEN w
    ELSE [w EXCEPT !.state.lastRenderedIndex =
                      minuteToIndexOfQuotient(w.state.currentDateData, num, den,
                                              w.state.selectedTimezone)]

\* seekToTimeOnCurrentDate(timestamp)
seekToTimeOnCurrentDate(w, timestamp) ==
    LET minute == pointMinute(timestamp, w.state.selectedTimezone)
    IN  updateMap([w EXCEPT !.dom.timeSlider = minute], minute)

\* dateSelect.value = value: the select shows value only if it is an option
setDateSelect(w, value) ==
    [w EXCEPT !.dom.dateSelect = IF value \in Range(w.dom.dateOptions) THEN value ELSE NoDate]

startPlayback(w) ==
    IF Len(w.state.currentDateData) = 0 THEN w
    ELSE LET w1 == IF w.dom.timeSlider >= LastMinute
                   THEN updateMap([w EXCEPT !.dom.timeSlider = 0], 0)
                   ELSE w
         IN  IF w1.state.isPlaying THEN w1
             ELSE [w1 EXCEPT !.state.isPlaying = TRUE, !.playInterval = PlayTimer,
                             !.intervals = @ + 1]

\* the callback without the stop at the end of the day
playbackTick_noStop(w) ==
    LET currentValue == w.dom.timeSlider + 1
    IN  IF currentValue >= LastMinute
        THEN updateMap([w EXCEPT !.dom.timeSlider = LastMinute], LastMinute)
        ELSE updateMap([w EXCEPT !.dom.timeSlider = currentValue], currentValue)

\* the setInterval callback of startPlayback
playbackTick(w) ==
    LET currentValue == w.dom.timeSlider + 1
    IN  IF currentValue >= LastMinute
        THEN stopPlayback(updateMap([w EXCEPT !.dom.timeSlider = LastMinute], LastMinute))
        ELSE updateMap([w EXCEPT !.dom.timeSlider = currentValue], currentValue)

\* loadDate from the assignment of the awaited result on
loadDateResult(w, t, locations) ==
    LET w1 == [w EXCEPT !.state.currentDateData = locations, !.history.loaded = t]
    IN  IF Len(locations) = 0 THEN alert(w1, "No data for selected date")
        ELSE LET w2 == stopPlayback(w1)
                 w3 == [w2 EXCEPT !.state.lastRenderedIndex = -1, !.dom.timeSlider = 0]
                 w4 == updateMap(w3, 0)
             IN  [w4 EXCEPT !.store.selectedDate = t.date]

loadDateDone(w, t) ==
    { loadDateResult(w, t, locations) :
        locations \in parseTimelineJSONForDate(FileDocument(t.file), t.date, t.useRaw, t.tz) }

\* loadDate(dateStr) up to its await
loadDate(w, date, req) ==
    IF w.state.rawJsonData = NoFile THEN {w}
    ELSE LET t == Task("date", w.state.rawJsonData, date, w.dom.useRawData,
                       w.state.selectedTimezone, req)
             w1 == [w EXCEPT !.history.latest = IF req = w.history.requests THEN t ELSE @]
         IN  IF scanYields(t) THEN { [w1 EXCEPT !.timers = Append(@, t)] }
             ELSE loadDateDone(w1, t)

\* loadTimelineData after  await getUniqueDatesFromRaw(jsonData, useRaw)
datesLoaded(w, t) ==
    LET result == getUniqueDatesFromRaw(FileDocument(t.file), t.useRaw)
        w1 == [w EXCEPT !.state.availableDates = result.dates]
    IN  IF result.status = "threw" THEN { alert(w, "Failed to load file") }
        ELSE IF Len(result.dates) = 0 THEN { alert(w1, "No location data found in file") }
        ELSE { [w1 EXCEPT !.dom.dateOptions = result.dates,
                          !.dom.dateSelect = NoDate,
                          !.store.timelineData = t.file,
                          !.io = Append(@, [t EXCEPT !.kind = "saveData"])] }

\* the useRawData handler after  await getUniqueDatesFromRaw(state.rawJsonData, useRaw)
toggleDone(w, t) ==
    LET result == getUniqueDatesFromRaw(FileDocument(t.file), t.useRaw)
        currentValue == w.dom.dateSelect
        w1 == [w EXCEPT !.state.availableDates = result.dates,
                        !.dom.dateOptions = result.dates]
    IN  IF result.status = "threw" THEN { alert(w, "Failed to switch data mode") }
        ELSE IF currentValue # NoDate /\ currentValue \in Range(result.dates)
        THEN loadDate([w1 EXCEPT !.dom.dateSelect = currentValue], currentValue, t.req)
        ELSE IF Len(result.dates) > 0
        THEN loadDate([w1 EXCEPT !.dom.dateSelect = result.dates[1]], result.dates[1], t.req)
        ELSE { [w1 EXCEPT !.dom.dateSelect = NoDate] }

\* the continuation of a scan that has visited its last chunk
scanDone(w, t) ==
    CASE t.kind = "dates"  -> datesLoaded(w, t)
      [] t.kind = "toggle" -> toggleDone(w, t)
      [] t.kind = "seek"   -> { seekToTimeOnCurrentDate(w2, t.at) : w2 \in loadDateDone(w, t) }
      [] OTHER             -> loadDateDone(w, t)

\* seekToDataPoint(index)
seekToDataPoint(w, index, req) ==
    IF index < 0 \/ index >= Len(w.state.currentDateData) THEN {w}
    ELSE LET location == w.state.currentDateData[index + 1]
             pointDateStr == toLocaleDateStringEnCA(location.timestamp, w.state.selectedTimezone)
         IN  IF pointDateStr # w.dom.dateSelect
             THEN LET w1 == setDateSelect(w, pointDateStr)
                      t == [Task("seek", w1.state.rawJsonData, pointDateStr, w1.dom.useRawData,
                                 w1.state.selectedTimezone, req) EXCEPT !.at = location.timestamp]
                  IN  IF scanYields(t) THEN { [w1 EXCEPT !.timers = Append(@, t)] }
                      ELSE scanDone(w1, t)
             ELSE { seekToTimeOnCurrentDate(w, location.timestamp) }

\* a date-discovery scan from its call to its first await
startScan(w, t) ==
    IF scanYields(t) THEN { [w EXCEPT !.timers = Append(@, t)] } ELSE scanDone(w, t)

\* a use of a control that loads nothing: counted
interaction(w) == [w EXCEPT !.history.requests = @ + 1, !.history.sought = Absent]

\* a user request: counted, and noted when it overtakes a suspended per-date scan
request(w) ==
    [w EXCEPT !.history.requests = @ + 1,
              !.history.sought = Absent,
              !.history.overtaken =
                  @ \/ \E k \in 1..Len(w.timers) : w.timers[k].kind = "date"]

Commit(w) ==
    /\ state' = w.state
    /\ dom' = w.dom
    /\ playInterval' = w.playInterval
    /\ intervals' = w.intervals
    /\ store' = w.store
    /\ alerts' = w.alerts
    /\ timers' = w.timers
    /\ reads' = w.reads
    /\ io' = w.io
    /\ history' = w.history
    /\ UNCHANGED notApp

AppInit ==
    /\ ExtractIdle
    /\ ParseIdle
    /\ LocateIdle
    /\ RouteIdle
    /\ ScanIdle
    /\ state \in [currentDateData : {<<>>}, availableDates : {<<>>},
                  selectedTimezone : Timezones, rawJsonData : {NoFile},
                  routeColorMode : {"none"}, isPlaying : {FALSE},
                  lastRenderedIndex : {-1}]
    /\ dom \in [useRawData : BOOLEAN, dateSelect : {NoDate}, dateOptions : {<<>>},
                timeSlider : {0}]
    /\ playInterval = NoTimer
    /\ intervals = 0
    /\ store \in [selectedDate : {NoDate} \cup Dates, timelineData : {NoFile}]
    /\ alerts = <<>>
    /\ timers = <<>>
    /\ reads = <<>>
    /\ io = <<>>
    /\ history = NoHistory

\* fileInput change:  const text = await file.text()
ChooseFile ==
    /\ history.requests < MaxRequests
    /\ \E f \in AppFiles :
          LET w == request(World)
          IN  Commit([w EXCEPT !.reads = Append(@, Task("read", f, NoDate, FALSE, "UTC",
                                                        w.history.requests))])

\* the read completes:  loadTimelineData(JSON.parse(text), file.name)  to its first await
ReadCompletes ==
    /\ reads # <<>>
    /\ LET t == Head(reads)
           w == [World EXCEPT !.reads = Tail(@), !.state.rawJsonData = t.file]
       IN  IF isInvalidJSON(t.file)
           THEN Commit(alert([World EXCEPT !.reads = Tail(@)], "Failed to load file"))
           ELSE \E w2 \in startScan(w, Task("dates", t.file, NoDate, w.dom.useRawData,
                                           w.state.selectedTimezone, t.req)) :
                   Commit(w2)

\* dateSelect change:  if (dateStr) loadDate(dateStr)
SelectDate ==
    /\ history.requests < MaxRequests
    /\ \E date \in Range(dom.dateOptions) :
          LET w == [request(World) EXCEPT !.dom.dateSelect = date]
          IN  \E w2 \in loadDate(w, date, w.history.requests) : Commit(w2)

\* useRawData change
ToggleRaw ==
    /\ history.requests < MaxRequests
    /\ LET w == [request(World) EXCEPT !.dom.useRawData = ~@]
       IN  IF w.state.rawJsonData = NoFile THEN Commit(w)
           ELSE \E w2 \in startScan(w, Task("toggle", w.state.rawJsonData, NoDate,
                                           w.dom.useRawData, w.state.selectedTimezone,
                                           w.history.requests)) :
                   Commit(w2)

\* the oldest zero-delay timer fires: the suspended scan visits its next chunk
TimerFires ==
    /\ timers # <<>>
    /\ LET t == [Head(timers) EXCEPT !.i = @ + chunkSize]
           w == [World EXCEPT !.timers = Tail(@)]
       IN  IF scanYields(t) THEN Commit([w EXCEPT !.timers = Append(@, t)])
           ELSE \E w2 \in scanDone(w, t) : Commit(w2)

\* the oldest IndexedDB request succeeds: loadTimelineData goes on after
\* saveToDB('timelineData'), saveToDB('timelineFilename'), loadFromDB('selectedDate')
IoCompletes ==
    /\ io # <<>>
    /\ LET t == Head(io)
           w == [World EXCEPT !.io = Tail(@)]
       IN  CASE t.kind = "saveData" ->
                  Commit([w EXCEPT !.io = Append(@, [t EXCEPT !.kind = "saveFilename"])])
             [] t.kind = "saveFilename" ->
                  Commit([w EXCEPT !.io = Append(@, [t EXCEPT !.kind = "restore",
                                                              !.date = w.store.selectedDate])])
             [] OTHER ->
                  IF t.date # NoDate /\ t.date \in Range(w.state.availableDates)
                  THEN \E w2 \in loadDate([w EXCEPT !.dom.dateSelect = t.date], t.date, t.req) :
                          Commit(w2)
                  ELSE Commit(w)

\* playBtn click
TogglePlay ==
    /\ history.requests < MaxRequests
    /\ LET w == interaction(World)
           w2 == startPlayback(w)
       IN  Commit(IF w.state.isPlaying THEN stopPlayback(w)
                  ELSE IF w2.state.isPlaying THEN [w2 EXCEPT !.history.started = w.history.requests]
                  ELSE w2)

\* the playback interval fires
IntervalFires ==
    /\ intervals > 0
    /\ Commit(playbackTick(World))

\* the same, followed for the first MaxTicks minutes of the day
PlayTick ==
    /\ dom.timeSlider < MaxTicks
    /\ IntervalFires

\* timezoneSelect change: the date list is rebuilt from state.availableDates
ChangeTimezone ==
    /\ history.requests < MaxRequests
    /\ \E tz \in Timezones \ {state.selectedTimezone} :
          LET w == [interaction(World) EXCEPT !.state.selectedTimezone = tz]
              currentValue == w.dom.dateSelect
          IN  IF w.state.rawJsonData = NoFile THEN Commit(w)
              ELSE Commit([w EXCEPT !.dom.dateOptions = w.state.availableDates,
                                    !.dom.dateSelect =
                                        IF currentValue # NoDate
                                           /\ currentValue \in Range(w.state.availableDates)
                                        THEN currentValue ELSE NoDate])

AppNext ==
    \/ ChooseFile \/ ReadCompletes \/ SelectDate \/ ToggleRaw \/ TimerFires \/ IoCompletes
    \/ TogglePlay \/ PlayTick \/ ChangeTimezone

SpecApp == AppInit /\ [][AppNext]_vars

-----------------------------------------------------------------------------
(* main.ts: playback and seeking on a loaded day.  The application starts from
   the state loadTimelineData and loadDate leave: a file is loaded and one of
   its dates has been selected. *)

\* the slider positions the user drags to
SeekMinutes == {0, 700, LastMinute - 1, LastMinute}

RouteColorModes == {"none", "speed", "activity"}

\* the files whose day is played
PlayFiles == ValidFiles

\* the application after loadTimelineData(f) has listed dates and loadDate(date)
\* has assigned locations; choosing the file was the first request
Loaded(f, raw, tz, dates, date, locations) ==
    loadDateResult(
        [state |-> [currentDateData |-> <<>>, availableDates |-> dates,
                    selectedTimezone |-> tz, rawJsonData |-> f, routeColorMode |-> "none",
                    isPlaying |-> FALSE, lastRenderedIndex |-> -1],
         dom |-> [useRawData |-> raw, dateSelect |-> date, dateOptions |-> dates,
                  timeSlider |-> 0],
         playInterval |-> NoTimer, intervals |-> 0,
         store |-> [selectedDate |-> NoDate, timelineData |-> f],
         alerts |-> <<>>, timers |-> <<>>, reads |-> <<>>, io |-> <<>>,
         history |-> [NoHistory EXCEPT !.requests = 1]],
        Task("date", f, date, raw, tz, 1), locations)

PlayInit ==
    /\ ExtractIdle
    /\ ParseIdle
    /\ LocateIdle
    /\ RouteIdle
    /\ ScanIdle
    /\ \E f \in PlayFiles, raw \in BOOLEAN, tz \in Timezones :
          LET dates == getUniqueDatesFromRaw(FileDocument(f), raw).dates
          IN  \E date \in Range(dates) :
                 \E locations \in parseTimelineJSONForDate(FileDocument(f), date, raw, tz) :
                    LET w == Loaded(f, raw, tz, dates, date, locations)
                    IN  /\ state = w.state
                        /\ dom = w.dom
                        /\ playInterval = w.playInterval
                        /\ intervals = w.intervals
                        /\ store = w.store
                        /\ alerts = w.alerts
                        /\ timers = w.timers
                        /\ reads = w.reads
                        /\ io = w.io
                        /\ history = w.history

\* a slider input that stops playback, as loadDate does
SeekTo_stopping(minute) ==
    /\ history.requests < MaxRequests
    /\ LET w == [interaction(World) EXCEPT !.history.sought = minute]
       IN  Commit(updateMap([stopPlayback(w) EXCEPT !.dom.timeSlider = minute], minute))

\* timeSlider input:  updateMap(minute)
SeekTo(minute) ==
    /\ history.requests < MaxRequests
    /\ LET w == [interaction(World) EXCEPT !.history.sought = minute]
       IN  Commit(updateMap([w EXCEPT !.dom.timeSlider = minute], minute))

Seek == \E minute \in SeekMinutes : SeekTo(minute)

\* click on entry index of the data-point list:  seekToDataPoint(index)
ClickOn(index) ==
    /\ history.requests < MaxRequests
    /\ LET w == request(World)
       IN  \E w2 \in seekToDataPoint(w, index, w.history.requests) : Commit(w2)

\* the list shows the bucket, and may show one entry more than a bucket that
\* has been replaced since
ClickDataPoint == \E index \in 0..Len(state.currentDateData) : ClickOn(index)

\* routeColorMode change
ChangeColorMode ==
    /\ history.requests < MaxRequests
    /\ \E mode \in RouteColorModes \ {state.routeColorMode} :
          LET w == interaction(World)
              w1 == [w EXCEPT !.state.routeColorMode = mode, !.state.lastRenderedIndex = -1]
          IN  Commit(updateMapOfQuotient(w1, w1.dom.timeSlider, 100))

PlayNext ==
    \/ TogglePlay \/ IntervalFires \/ Seek \/ ClickDataPoint \/ ChangeColorMode
    \/ SelectDate \/ TimerFires

SpecPlay == PlayInit /\ [][PlayNext]_vars

\* the big file, read in raw mode in UTC, whose per-date scan yields to the
\* event loop
PlayFairInit ==
    /\ PlayInit
    /\ state.rawJsonData = "big"
    /\ dom.useRawData
    /\ state.selectedTimezone = "UTC"

\* setInterval keeps calling its callback until clearInterval
SpecPlayFair == PlayFairInit /\ [][PlayNext]_vars /\ WF_vars(IntervalFires)

-----------------------------------------------------------------------------
(* Claims about the application *)

\* no scan, read or request is in flight
Settled == timers = <<>> /\ reads = <<>> /\ io = <<>>

\* C5: if a new load request was issued while an earlier per-date scan was
\* suspended at a yield, then once everything has completed currentDateData is
\* the result of the per-date load of the most recent request.
C5_StaleScanDiscarded ==
    (/\ Settled
     /\ history.overtaken
     /\ history.latest.req = history.requests)
    => state.currentDateData \in
          parseTimelineJSONForDate(FileDocument(history.latest.file), history.latest.date,
                                   history.latest.useRaw, history.latest.tz)

\* the step shows the alert message
Alerted(message) ==
    /\ Len(alerts') = Len(alerts) + 1
    /\ alerts'[Len(alerts')] = message

\* C13: when a selected date yields zero points, the failure is reported and the
\* previously displayed state is kept: currentDateData, the playing flag and
\* the rendered index have the values they had before.
C13_EmptyDateKeepsDisplayedState ==
    [][Alerted("No data for selected date") =>
          /\ state'.currentDateData = state.currentDateData
          /\ state'.isPlaying = state.isPlaying
          /\ state'.lastRenderedIndex = state.lastRenderedIndex]_vars

\* the step in which the read of a structurally wrong file completes, while a
\* valid file is loaded
StructuralFailure ==
    /\ reads # <<>>
    /\ reads' = Tail(reads)
    /\ Head(reads).file \in AppFiles \ ValidFiles
    /\ state.rawJsonData \in ValidFiles

\* C14: a load attempt that fails structurally (the text is not valid JSON, or
\* the top-level value has none of the known shapes) is reported once and
\* leaves prior state intact: rawJsonData, availableDates and currentDateData
\* keep the values of the previously loaded file.
C14_StructuralFailureKeepsState ==
    [][StructuralFailure =>
          /\ Len(alerts') = Len(alerts) + 1
          /\ state'.rawJsonData = state.rawJsonData
          /\ state'.availableDates = state.availableDates
          /\ state'.currentDateData = state.currentDateData]_vars

\* the invalid-JSON half of C14
InvalidJSONKeepsState ==
    [][(StructuralFailure /\ isInvalidJSON(Head(reads).file)) =>
          /\ Len(alerts') = Len(alerts) + 1
          /\ state' = state]_vars

\* every point of data falls on date in timezone tz
AllOnDate(data, date, tz) ==
    \A i \in 1..Len(data) :
        data[i].timestamp # NaN /\ LocalDate(data[i].timestamp, tz) = date

\* a file and a date are loaded, nothing is in flight, and the points shown
\* fall on the selected date in the selected timezone
DateLoaded ==
    /\ Settled
    /\ state.rawJsonData \in ValidFiles
    /\ dom.dateSelect # NoDate
    /\ state.currentDateData # <<>>
    /\ AllOnDate(state.currentDateData, dom.dateSelect, state.selectedTimezone)

\* C19: after the user selects a different timezone while a file and a date are
\* loaded, the data is filtered by date in the new timezone: the available-date
\* list is the date set of the file in the new timezone and every point of
\* currentDateData has a calendar date, in the new timezone, equal to the
\* selected date.
C19_TimezoneChangeRefilters ==
    [][(DateLoaded /\ state'.selectedTimezone # state.selectedTimezone) =>
          /\ state'.availableDates =
                SortDates({ LocalDate(ts, state'.selectedTimezone) :
                              ts \in discoveryTimestamps(FileDocument(state.rawJsonData),
                                                         dom.useRawData) })
          /\ AllOnDate(state'.currentDateData, dom'.dateSelect, state'.selectedTimezone)]_vars

\* the currentDateData half of C19
TimezoneChangeRefiltersPoints ==
    [][(DateLoaded /\ state'.selectedTimezone # state.selectedTimezone) =>
          AllOnDate(state'.currentDateData, dom'.dateSelect, state'.selectedTimezone)]_vars

\* every point a per-date load of file f can put into currentDateData
FilePoints(f) ==
    UNION { Range(locations) :
              locations \in UNION { parseTimelineJSONForDate(FileDocument(f), date, raw, tz) :
                                      date \in Dates, raw \in BOOLEAN, tz \in Timezones } }

\* file f is the file loaded last, its dates are listed and nothing is in flight
FileLoaded(f) ==
    /\ Settled
    /\ f \in ValidFiles
    /\ state.rawJsonData = f
    /\ store.timelineData = f
    /\ state.availableDates = getUniqueDatesFromRaw(FileDocument(f), dom.useRawData).dates

\* C25: after any sequence of file loads and date selections, the current day
\* bucket holds only points extracted from the most recently loaded file: once a
\* new file has been loaded successfully, no point of a previously loaded file
\* is displayed, played back or used to answer a date selection (including a
\* small file followed by a large one, and a new file for which no saved date is
\* restored).
C25_BucketOfLatestFile ==
    \A f \in ValidFiles :
        FileLoaded(f) => Range(state.currentDateData) \subseteq FilePoints(f)

\* C25 for the loads that are followed by a per-date load of the same file
BucketOfLatestLoad ==
    \A f \in ValidFiles :
        (FileLoaded(f) /\ history.loaded.file = f /\ history.loaded.req = history.requests) =>
            Range(state.currentDateData) \subseteq FilePoints(f)

\* the dates date discovery lists for the file and the mode of load t
ListedFor(t) == Range(getUniqueDatesFromRaw(FileDocument(t.file), t.useRaw).dates)

\* C29: every date listed by date discovery yields a non-empty day bucket when
\* it is loaded with the same file, the same raw/semantic mode and the same
\* timezone: 'No data for selected date' never occurs for a listed date unless
\* the mode, timezone or file changed in between.
C29_ListedDateHasData ==
    [][Alerted("No data for selected date") =>
          history'.loaded.date \notin ListedFor(history'.loaded)]_vars

\* C29 for the loads made in UTC, the timezone date discovery lists dates in
ListedDateHasDataInUTC ==
    [][(Alerted("No data for selected date") /\ history'.loaded.tz = "UTC") =>
          history'.loaded.date \notin ListedFor(history'.loaded)]_vars

-----------------------------------------------------------------------------
(* Claims about playback and seeking *)

\* playback has run to the end of the day and has stopped itself
StoppedAtEnd ==
    /\ ~state.isPlaying
    /\ dom.timeSlider = LastMinute
    /\ playInterval = NoTimer
    /\ intervals = 0

\* playback is running on a non-empty bucket and the request that started it
\* is the last request made
PlayingUnfollowed ==
    /\ state.isPlaying
    /\ Len(state.currentDateData) > 0
    /\ history.started = history.requests

\* a request was made after the one that started playback
Followed == history.started # history.requests

\* a tick of a playback that no request has followed moves the slider on by
\* one minute, and not beyond the last minute
TickAdvances ==
    [][(IntervalFires /\ state.isPlaying /\ history.started = history.requests) =>
          /\ dom'.timeSlider = dom.timeSlider + 1
          /\ dom'.timeSlider <= LastMinute]_vars

SeekWhilePlaying == state.isPlaying /\ Seek

\* a seek during playback leaves the playing flag and the timer as they are
SeekKeepsTimer ==
    [][SeekWhilePlaying =>
          /\ state'.isPlaying
          /\ playInterval' = playInterval
          /\ playInterval' # NoTimer
          /\ intervals' = intervals]_vars

\* C23: a slider seek while playback is running does not stop playback:
\* isPlaying stays true, the same timer stays scheduled, and the next tick
\* advances from the sought minute (to sought + 1) rather than from the
\* position held before the seek.
C23_SeekDuringPlayback ==
    /\ SeekKeepsTimer
    /\ [][(IntervalFires /\ state.isPlaying /\ history.sought # Absent
             /\ dom.timeSlider = history.sought) =>
             dom'.timeSlider = history.sought + 1]_vars

\* C23 for the minutes that have a successor; after a seek to the last minute
\* the next tick keeps the slider there and stops playback
C23_SeekDuringPlaybackBelowLastMinute ==
    /\ SeekKeepsTimer
    /\ [][(IntervalFires /\ state.isPlaying /\ history.sought # Absent
             /\ dom.timeSlider = history.sought) =>
             IF history.sought < LastMinute
             THEN dom'.timeSlider = history.sought + 1
             ELSE dom'.timeSlider = LastMinute /\ ~state'.isPlaying]_vars

\* playback was running, the user sought minute 700 and one tick has fired
C23_Witness ==
    /\ state.isPlaying
    /\ history.started < history.requests
    /\ history.sought = 700
    /\ dom.timeSlider = 701

\* data point index lies on the date the select shows
OnSelectedDate(index) ==
    /\ index < Len(state.currentDateData)
    /\ toLocaleDateStringEnCA(state.currentDateData[index + 1].timestamp,
                              state.selectedTimezone) = dom.dateSelect

\* C24: clicking data point k in the data-point list of the currently loaded
\* date seeks the timeline to that point: afterwards the slider holds the
\* minute-of-day of point k in the selected timezone and the current
\* (highlighted) data point, lastRenderedIndex, is k, also when several points
\* of the bucket fall in the same minute.
C24_ClickSeeksToPoint ==
    [][\A k \in 0..(Len(state.currentDateData) - 1) :
          (OnSelectedDate(k) /\ ClickOn(k)) =>
              /\ dom'.timeSlider = pointMinute(state.currentDateData[k + 1].timestamp,
                                               state.selectedTimezone)
              /\ state'.lastRenderedIndex = k]_vars

\* the slider half of C24
ClickSetsSliderToPointMinute ==
    [][\A k \in 0..(Len(state.currentDateData) - 1) :
          (OnSelectedDate(k) /\ ClickOn(k)) =>
              dom'.timeSlider = pointMinute(state.currentDateData[k + 1].timestamp,
                                            state.selectedTimezone)]_vars

\* C28: changing the route color mode re-renders the route at the current
\* playback position: the index rendered after the change (lastRenderedIndex)
\* equals the index that the current slider value selects, and the slider
\* value itself is unchanged; only the segment colors differ.
C28_ColorModeRendersAtSlider ==
    [][(ChangeColorMode /\ Len(state.currentDateData) > 0) =>
          /\ dom'.timeSlider = dom.timeSlider
          /\ state'.lastRenderedIndex =
                minuteToIndex(state.currentDateData, dom.timeSlider, state.selectedTimezone)]_vars

\* the slider half of C28
ColorModeKeepsSlider ==
    [][ChangeColorMode =>
          /\ dom'.timeSlider = dom.timeSlider
          /\ state'.currentDateData = state.currentDateData]_vars

\* C30: in every state reachable through the play button, slider seeks, date
\* loads and timer ticks, isPlaying is true exactly when a playback timer is
\* scheduled (playInterval is not null), and at most one playback timer exists
\* at any time.
C30_PlayingIffTimerScheduled ==
    /\ state.isPlaying <=> playInterval # NoTimer
    /\ state.isPlaying <=> intervals > 0
    /\ intervals <= 1

\* playback runs, with its one timer, while a date load is pending and after
\* a tick
C30_Witness ==
    /\ state.isPlaying
    /\ playInterval = PlayTimer
    /\ intervals = 1
    /\ timers # <<>>
    /\ dom.timeSlider > 0

====
